---------------------------- MODULE Spec2Model ----------------------------
(***************************************************************************)
(* A model of the SonicSage on-chain programs: the strategy ledger and its *)
(* fee sweeps (strategy_manager.rs), the native DeFi strategy program      *)
(* (defi_strategy.rs) and the AI trading program (ai_trading.rs).          *)
(*                                                                         *)
(* Every instruction is one atomic action: a Solana transaction either     *)
(* commits all the account changes of its handler or, when the handler     *)
(* returns an error or panics, none of them.  The ledger starts with the   *)
(* registry initialized and one strategy created.                          *)
(***************************************************************************)
EXTENDS Integers, Sequences, FiniteSets, TLC

(***************************************************************************)
(* Bounds of the model.                                                    *)
(***************************************************************************)
\* u64 quantities are modelled W bits wide: U64_MAX = 2^W - 1.
W == 12
\* The clock is advanced at most MaxTicks times.
MaxTicks == 2
\* At most MaxSubscribes subscription accounts are ever created.
MaxSubscribes == 2
\* At most MaxTrades trade records are created.
MaxTrades == 1
\* At most MaxOutcomes trade outcomes are recorded.
MaxOutcomes == 2
\* At most MaxAgentTrades trade actions are recorded for the agent.
MaxAgentTrades == 2
\* At most MaxEvictions performance points are evicted.
MaxEvictions == 2
\* At most MaxAlertsCreated price alerts are created.
MaxAlertsCreated == 2

U64_MAX == 2^W - 1

(***************************************************************************)
(* IEEE-754 binary64 arithmetic, as far as the fee code uses it: `as f64`  *)
(* of an integer, `/` of two integers converted to f64, `*`, `as u64` and  *)
(* `>=`.  A non-negative finite double is [m, e], the number m * 2^e, with *)
(* m = 0 or 2^52 <= m < 2^53.  TLC's integers are 32 bits wide, so a       *)
(* significand is a little-endian sequence of 15-bit limbs.  Every         *)
(* operation rounds to nearest, ties to even, as the hardware does.        *)
(* Subnormals, infinities and NaN are out of reach of the values the       *)
(* model feeds in (all below 2^31, quotients above 2^-40).                 *)
(***************************************************************************)
LimbBase == 2^15

RECURSIVE BNorm(_)
BNorm(s) == IF s = <<>> THEN <<>>
            ELSE IF s[Len(s)] = 0 THEN BNorm(SubSeq(s, 1, Len(s) - 1)) ELSE s

\* n is below 2^31: at most three limbs.
BFromInt(n) ==
    BNorm(<<n % LimbBase, (n \div LimbBase) % LimbBase, n \div (LimbBase * LimbBase)>>)

RECURSIVE BToInt(_)
BToInt(s) == IF s = <<>> THEN 0 ELSE s[1] + LimbBase * BToInt(Tail(s))

\* s * k + c, for 0 <= k <= 2^15 and 0 <= c < 2^15.
RECURSIVE BMulSmall(_, _, _)
BMulSmall(s, k, c) ==
    IF s = <<>> THEN (IF c = 0 THEN <<>> ELSE <<c>>)
    ELSE LET t == s[1] * k + c
         IN  <<t % LimbBase>> \o BMulSmall(Tail(s), k, t \div LimbBase)

RECURSIVE BAddC(_, _, _)
BAddC(a, b, c) ==
    IF a = <<>> /\ b = <<>> THEN (IF c = 0 THEN <<>> ELSE <<c>>)
    ELSE LET x == IF a = <<>> THEN 0 ELSE a[1]
             y == IF b = <<>> THEN 0 ELSE b[1]
             t == x + y + c
         IN  <<t % LimbBase>> \o
             BAddC(IF a = <<>> THEN <<>> ELSE Tail(a),
                   IF b = <<>> THEN <<>> ELSE Tail(b), t \div LimbBase)

BAdd(a, b) == BNorm(BAddC(a, b, 0))

RECURSIVE BMul(_, _)
BMul(a, b) ==
    IF b = <<>> \/ a = <<>> THEN <<>>
    ELSE BAdd(BNorm(BMulSmall(a, b[1], 0)),
              LET r == BMul(a, Tail(b)) IN IF r = <<>> THEN <<>> ELSE <<0>> \o r)

RECURSIVE BitLenInt(_)
BitLenInt(n) == IF n = 0 THEN 0 ELSE 1 + BitLenInt(n \div 2)

BBitLen(s) == IF s = <<>> THEN 0 ELSE (Len(s) - 1) * 15 + BitLenInt(s[Len(s)])

\* s * 2^n
RECURSIVE BShl(_, _)
BShl(s, n) ==
    IF s = <<>> THEN <<>>
    ELSE IF n >= 15 THEN <<0>> \o BShl(s, n - 15)
    ELSE BNorm(BMulSmall(s, 2^n, 0))

\* floor(s / d) for 1 <= d <= 2^14, limb by limb from the top; r is the
\* remainder carried down.
RECURSIVE BDivSmallFrom(_, _, _, _)
BDivSmallFrom(s, i, r, d) ==
    IF i = 0 THEN <<>>
    ELSE LET t == r * LimbBase + s[i]
         IN  BDivSmallFrom(s, i - 1, t % d, d) \o <<t \div d>>

\* floor(s / 2^n)
RECURSIVE BShr(_, _)
BShr(s, n) ==
    IF s = <<>> \/ n = 0 THEN s
    ELSE IF n >= 15 THEN BShr(Tail(s), n - 15)
    ELSE BNorm(BDivSmallFrom(s, Len(s), 0, 2^n))

BOdd(s) == s # <<>> /\ s[1] % 2 = 1

\* The double nearest to n * 2^e (ties to even), n a natural of any length.
F64Round(n, e) ==
    LET L == BBitLen(n)
    IN  IF L = 0 THEN [m |-> <<>>, e |-> 0]
        ELSE IF L <= 53 THEN [m |-> BShl(n, 53 - L), e |-> e - (53 - L)]
        ELSE LET d     == L - 53
                 q1    == BShr(n, d - 1)
                 q     == BShr(q1, 1)
                 guard == BOdd(q1)
                 stick == BShl(q1, d - 1) # n
                 up    == guard /\ (stick \/ BOdd(q))
                 r     == IF up THEN BAdd(q, <<1>>) ELSE q
             IN  IF BBitLen(r) = 54 THEN [m |-> BShr(r, 1), e |-> e + d + 1]
                 ELSE [m |-> r, e |-> e + d]

\* `n as f64`, n below 2^31: exact.
F64FromInt(n) == F64Round(BFromInt(n), 0)

\* One limb of a long division by b (b below 2^30): k more quotient bits,
\* the dividend's next bits being zeros.  The result is <<limb, remainder>>.
RECURSIVE DivBits(_, _, _, _)
DivBits(r, b, k, acc) ==
    IF k = 0 THEN <<acc, r>>
    ELSE LET t == 2 * r
         IN  IF t >= b THEN DivBits(t - b, b, k - 1, 2 * acc + 1)
             ELSE DivBits(t, b, k - 1, 2 * acc)

\* floor(r * 2^(15 * n) / b) for r < b, as n limbs below the quotient q so
\* far (most significant first), with the final remainder.
RECURSIVE DivLimbs(_, _, _, _)
DivLimbs(r, b, n, q) ==
    IF n = 0 THEN <<q, r>>
    ELSE LET d == DivBits(r, b, 15, 0)
         IN  DivLimbs(d[2], b, n - 1, <<d[1]>> \o q)

\* `(a as f64) / (b as f64)` for naturals a, b (b > 0): both conversions are
\* exact, so the result is the double nearest to a / b.  The quotient
\* a * 2^90 / b has at least 59 bits; a sticky bit for the remainder is
\* appended below it.
F64DivInt(a, b) ==
    IF a = 0 THEN [m |-> <<>>, e |-> 0]
    ELSE LET qr == DivLimbs(a % b, b, 6, BFromInt(a \div b))
             qs == BNorm(BMulSmall(BNorm(qr[1]), 2, IF qr[2] = 0 THEN 0 ELSE 1))
         IN  F64Round(qs, 0 - 91)

\* x * y
F64Mul(x, y) == F64Round(BMul(x.m, y.m), x.e + y.e)

\* `x as u64` for x >= 0: the integer part (the values met are below 2^31).
F64ToU64(x) ==
    IF x.m = <<>> THEN 0
    ELSE IF x.e >= 0 THEN BToInt(BShl(x.m, x.e))
    ELSE BToInt(BShr(x.m, 0 - x.e))

\* x >= y for non-negative doubles.
RECURSIVE BGeFrom(_, _, _)
BGeFrom(a, b, i) ==
    IF i = 0 THEN TRUE
    ELSE IF a[i] # b[i] THEN a[i] > b[i]
    ELSE BGeFrom(a, b, i - 1)

F64Ge(x, y) ==
    IF y.m = <<>> THEN TRUE
    ELSE IF x.m = <<>> THEN FALSE
    ELSE IF x.e # y.e THEN x.e > y.e
    ELSE BGeFrom(x.m, y.m, Len(x.m))


(***************************************************************************)
(* Rust integer helpers.                                                   *)
(***************************************************************************)
\* Option<u64>: <<>> is None, <<v>> is Some(v).
CheckedAdd(a, b) == IF a + b <= U64_MAX THEN <<a + b>> ELSE <<>>

CheckedSub(a, b) == IF a >= b THEN <<a - b>> ELSE <<>>

IsSome(o) == o # <<>>

Unwrap(o) == o[1]

UnwrapOr(o, d) == IF o = <<>> THEN d ELSE o[1]

\* i64 `/ 2`: Rust's integer division truncates toward zero.
TruncDiv2(x) == IF x >= 0 THEN x \div 2 ELSE 0 - ((0 - x) \div 2)

(***************************************************************************)
(* Identities and inputs.                                                  *)
(***************************************************************************)
Admin == "admin"

Creator == "carol"

Subscribers == {"alice", "bob"}

Signers == {Admin, Creator} \cup Subscribers

\* Token accounts: a subscriber's own, and the strategy's custody account.
Custody == "strategy_token_account"

AmountInputs == {100, 1000, 4000}

NewValueInputs == {0, 1200}

ReturnsInputs == {-1, 1}

MinInvestmentInputs == {500}

ManagementFeeInputs == {500, 501}

PerformanceFeeInputs == {2000, 3001}

ProtocolFeeInputs == {50}

\* Clock::get() advances by one of these between transactions: a second less
\* than a day, a day, eleven years.
ClockSteps == {86399, 86400, 346896000}

\* An account that does not exist (never created, or closed).
NoAccount == [initialized |-> FALSE]

VARIABLES
    registry,       \* strategy_manager.rs: the StrategyRegistry account
    strategy,       \* strategy_manager.rs: the AIStrategy account
    subscription,   \* strategy_manager.rs: each subscriber's StrategySubscription
    opened,         \* how many subscription accounts were created
    defi_strategy,  \* defi_strategy.rs: the Strategy account
    position,       \* defi_strategy.rs: the UserPosition account
    trading_state,  \* ai_trading.rs: the TradingState account
    trade_record,   \* ai_trading.rs: the TradeRecord accounts, in creation order
    outcomes,       \* how many trade outcomes were recorded
    agent_config,   \* lib.rs: the AgentConfig account
    agent_stats,    \* lib.rs: the AgentStats account
    trade_action,   \* lib.rs: the seeds of the TradeAction accounts created
    recorded,       \* every daily_profit_loss recorded so far, in order
    price_alerts,   \* price_alerts.rs: the UserPriceAlerts account
    now,            \* Clock::get()?.unix_timestamp
    ticks,          \* how often the clock was advanced
    tx              \* the last transaction: instruction, inputs, result, effects

ledgerVars == <<registry, strategy, subscription>>

defiVars == <<defi_strategy, position>>

tradeVars == <<trading_state, trade_record>>

agentVars == <<agent_config, agent_stats, trade_action, recorded>>

alertVars == <<price_alerts>>

clockVars == <<now, ticks>>

vars == <<registry, strategy, subscription, opened, defi_strategy, position,
          trading_state, trade_record, outcomes, agent_config, agent_stats,
          trade_action, recorded, price_alerts, now, ticks, tx>>

(***************************************************************************)
(* The record of a transaction.  `arg` holds the instruction's arguments,   *)
(* `transfers` and `events` the token transfers and notifications it        *)
(* requested, `pre` the subscription or position account it was given, as   *)
(* it was before the transaction, `at` the clock it ran at.                 *)
(***************************************************************************)
Tx(ix, signer, account, arg, result, transfers, events, pre) ==
    [ix |-> ix, signer |-> signer, account |-> account, arg |-> arg,
     result |-> result, transfers |-> transfers, events |-> events,
     pre |-> pre, at |-> now]

NoArgs == [none |-> TRUE]

NoTx == [ix |-> "none", signer |-> "none", account |-> "none", arg |-> NoArgs,
         result |-> "Ok", transfers |-> <<>>, events |-> <<>>,
         pre |-> NoAccount, at |-> 0]

\* A transaction that failed: every account is as it was.
Rejected(ix, signer, account, arg, error, pre) ==
    /\ tx' = Tx(ix, signer, account, arg, error, <<>>, <<>>, pre)
    /\ UNCHANGED <<ledgerVars, defiVars, tradeVars>>

Transfer(from, to, amount) == [from |-> from, to |-> to, amount |-> amount]

\* The clock moves between transactions.
Tick(steps) ==
    /\ ticks < MaxTicks
    /\ \E d \in steps : now' = now + d
    /\ ticks' = ticks + 1
    /\ UNCHANGED <<ledgerVars, opened, defiVars, tradeVars, outcomes,
                   agentVars, alertVars, tx>>

(***************************************************************************)
(* strategy_manager.rs                                                     *)
(*                                                                         *)
(* An instruction is modelled for the transactions whose accounts Anchor    *)
(* can load: the strategy exists and, except for subscribe_to_strategy,     *)
(* which creates it, so does the subscription account.                      *)
(***************************************************************************)
initialize_registry(authority, protocol_fee_bps, fee_recipient) ==
    [authority |-> authority, strategy_count |-> 0,
     protocol_fee_bps |-> protocol_fee_bps, fee_recipient |-> fee_recipient]

\* The strategy account as create_strategy fills it.  `pda_creator` is not a
\* field of AIStrategy but part of the account's address: the creator key in
\* the seeds the address was derived from, which never changes.
NewStrategy(creator, risk_level, time_horizon, token_support, management_fee_bps, performance_fee_bps, min_investment) ==
    [pda_creator |-> creator,
     creator |-> creator, name |-> "name", description_hash |-> "hash",
     ai_models |-> 1, risk_level |-> risk_level,
     time_horizon |-> time_horizon, token_support |-> token_support,
     management_fee_bps |-> management_fee_bps,
     performance_fee_bps |-> performance_fee_bps,
     min_investment |-> min_investment, tvl |-> 0, subscriber_count |-> 0,
     total_returns_bps |-> 0, created_at |-> now, updated_at |-> now,
     status |-> 0, verified |-> FALSE]

\* A seeded fault: ValidStrategyParams without the cap on the management fee.
ValidStrategyParamsNoFeeCap(risk_level, time_horizon, token_support, management_fee_bps, performance_fee_bps) ==
    /\ risk_level <= 3
    /\ time_horizon <= 2
    /\ token_support <= 3
    /\ performance_fee_bps <= 3000

\* The checks create_strategy makes of its parameters.
ValidStrategyParams(risk_level, time_horizon, token_support, management_fee_bps, performance_fee_bps) ==
    /\ risk_level <= 3
    /\ time_horizon <= 2
    /\ token_support <= 3
    /\ management_fee_bps <= 500
    /\ performance_fee_bps <= 3000

\* update_strategy's arguments, each an Option (<<>> is None).
NoPatch ==
    [name |-> <<>>, description_hash |-> <<>>, risk_level |-> <<>>,
     time_horizon |-> <<>>, ai_models |-> <<>>, token_support |-> <<>>,
     management_fee_bps |-> <<>>, performance_fee_bps |-> <<>>,
     min_investment |-> <<>>, status |-> <<>>]

PatchInputs ==
    {[NoPatch EXCEPT !.risk_level = <<2>>, !.management_fee_bps = <<501>>],
     [NoPatch EXCEPT !.risk_level = <<1>>, !.name = <<"renamed">>],
     [NoPatch EXCEPT !.risk_level = <<4>>],
     [NoPatch EXCEPT !.status = <<0>>],
     [NoPatch EXCEPT !.status = <<1>>],
     [NoPatch EXCEPT !.status = <<2>>],
     [NoPatch EXCEPT !.min_investment = <<50>>, !.status = <<3>>]}

\* The fields in the order update_strategy handles them, each with the bound
\* its require! puts on it (none where `checked` is FALSE).
PatchSteps ==
    <<[field |-> "risk_level", checked |-> TRUE, max |-> 3],
      [field |-> "time_horizon", checked |-> TRUE, max |-> 2],
      [field |-> "ai_models", checked |-> FALSE, max |-> 0],
      [field |-> "token_support", checked |-> TRUE, max |-> 3],
      [field |-> "management_fee_bps", checked |-> TRUE, max |-> 500],
      [field |-> "performance_fee_bps", checked |-> TRUE, max |-> 3000],
      [field |-> "min_investment", checked |-> FALSE, max |-> 0],
      [field |-> "status", checked |-> TRUE, max |-> 2],
      [field |-> "name", checked |-> FALSE, max |-> 0],
      [field |-> "description_hash", checked |-> FALSE, max |-> 0]>>

RECURSIVE ApplyPatch(_, _, _)
\* The handler's body from step i on, run on the in-memory account s: each
\* field given is checked, then assigned; the first failing check returns
\* the error with the earlier assignments made to the in-memory account.
ApplyPatch(s, patch, i) ==
    IF i > Len(PatchSteps) THEN [ok |-> TRUE, account |-> s]
    ELSE LET step  == PatchSteps[i]
             value == patch[step.field]
         IN  IF ~IsSome(value) THEN ApplyPatch(s, patch, i + 1)
             ELSE IF step.checked /\ ~(Unwrap(value) <= step.max)
                  THEN [ok |-> FALSE, account |-> s]
             ELSE ApplyPatch([s EXCEPT ![step.field] = Unwrap(value)],
                             patch, i + 1)

\* A seeded fault: the in-memory account written back whatever the outcome.
WrittenBackAlways(outcome, before) ==
    IF outcome.ok THEN [outcome.account EXCEPT !.updated_at = now]
    ELSE outcome.account

\* The strategy account after the instruction: Anchor writes the in-memory
\* account back when the handler returned Ok(()), and an instruction that
\* returned an error leaves every account as it was.
WrittenBack(outcome, before) ==
    IF outcome.ok THEN [outcome.account EXCEPT !.updated_at = now]
    ELSE before

\* seeds = [b"strategy", creator.key().as_ref(), strategy.id.as_bytes()]: the
\* address derived from the signer's key is the strategy account's address.
UpdateStrategySeeds(signer) == signer = strategy.pda_creator

\* constraint = creator.key() == strategy.creator @ ErrorCode::Unauthorized
UpdateStrategyConstraint(signer) == signer = strategy.creator

\* Anchor checks the seeds of the strategy account (ConstraintSeeds) before
\* its raw constraint (Unauthorized), and both before the handler runs.
update_strategy(signer, patch) ==
    LET outcome == ApplyPatch(strategy, patch, 1)
    IN  /\ strategy # NoAccount
        /\ IF ~UpdateStrategySeeds(signer)
           THEN Rejected("update_strategy", signer, "strategy", patch,
                         "ConstraintSeeds", NoAccount)
           ELSE IF ~UpdateStrategyConstraint(signer)
           THEN Rejected("update_strategy", signer, "strategy", patch,
                         "Unauthorized", NoAccount)
           ELSE /\ strategy' = WrittenBack(outcome, strategy)
                /\ UNCHANGED <<registry, subscription, defiVars, tradeVars>>
                /\ tx' = Tx("update_strategy", signer, "strategy", patch,
                            IF outcome.ok THEN "Ok" ELSE "InvalidParameter",
                            <<>>,
                            IF outcome.ok THEN <<"StrategyUpdated">> ELSE <<>>,
                            NoAccount)

UpdateStrategy ==
    \E who \in {Creator, Admin}, patch \in PatchInputs :
        /\ update_strategy(who, patch)
        /\ UNCHANGED <<clockVars, opened, outcomes, agentVars, alertVars>>

(***************************************************************************)
(* The registry and the strategy from their creation on.                   *)
(***************************************************************************)
RegistryFeeInputs == {50, 1000, 1001}

\* Who calls the instructions on the strategy and the registry: the
\* registry's authority, the strategy's creator and somebody else.
GovernanceSigners == {Admin, Creator, "alice"}

\* The registry is an `init` account: the instruction fails where it exists.
InitializeRegistry ==
    \E fee \in RegistryFeeInputs :
        LET arg == [protocol_fee_bps |-> fee, fee_recipient |-> <<Admin>>]
        IN  /\ IF registry # NoAccount
               THEN Rejected("initialize_registry", Admin, "registry", arg,
                             "AccountAlreadyInUse", NoAccount)
               ELSE IF ~(fee <= 1000)
               THEN Rejected("initialize_registry", Admin, "registry", arg,
                             "InvalidParameter", NoAccount)
               ELSE /\ registry' = initialize_registry(Admin, fee, Admin)
                    /\ UNCHANGED <<strategy, subscription, defiVars, tradeVars>>
                    /\ tx' = Tx("initialize_registry", Admin, "registry", arg,
                                "Ok", <<>>, <<>>, NoAccount)
            /\ UNCHANGED <<clockVars, opened, outcomes, agentVars, alertVars>>

\* The strategy is an `init` account at the address of the creator and the
\* registry's strategy_count: the instruction is modelled for the first
\* strategy, the one the model keeps.
create_strategy(creator, risk_level, time_horizon, token_support, management_fee_bps, performance_fee_bps, min_investment) ==
    LET arg == [risk_level |-> risk_level, time_horizon |-> time_horizon,
                token_support |-> token_support,
                management_fee_bps |-> management_fee_bps,
                performance_fee_bps |-> performance_fee_bps,
                min_investment |-> min_investment]
    IN  /\ registry # NoAccount
        /\ strategy = NoAccount
        /\ IF ~ValidStrategyParams(risk_level, time_horizon, token_support,
                                   management_fee_bps, performance_fee_bps)
           THEN Rejected("create_strategy", creator, "strategy", arg,
                         "InvalidParameter", NoAccount)
           ELSE /\ strategy' = NewStrategy(creator, risk_level, time_horizon,
                                           token_support, management_fee_bps,
                                           performance_fee_bps, min_investment)
                /\ registry' = [registry EXCEPT !.strategy_count = @ + 1]
                /\ UNCHANGED <<subscription, defiVars, tradeVars>>
                /\ tx' = Tx("create_strategy", creator, "strategy", arg, "Ok",
                            <<>>, <<"StrategyUpdated">>, NoAccount)

CreateStrategy ==
    \E m \in ManagementFeeInputs, p \in PerformanceFeeInputs,
       min \in MinInvestmentInputs :
        /\ create_strategy(Creator, 2, 1, 0, m, p, min)
        /\ UNCHANGED <<clockVars, opened, outcomes, agentVars, alertVars>>

\* Changes of the fee rates, within and beyond the caps.
FeePatchInputs ==
    {[NoPatch EXCEPT !.management_fee_bps = <<400>>],
     [NoPatch EXCEPT !.management_fee_bps = <<501>>],
     [NoPatch EXCEPT !.performance_fee_bps = <<3000>>],
     [NoPatch EXCEPT !.management_fee_bps = <<300>>,
                     !.performance_fee_bps = <<3001>>]}

UpdateStrategyFees ==
    \E who \in GovernanceSigners, patch \in FeePatchInputs :
        /\ update_strategy(who, patch)
        /\ UNCHANGED <<clockVars, opened, outcomes, agentVars, alertVars>>

\* transfer_strategy_ownership takes the accounts of UpdateStrategy: the seeds
\* and the constraint are checked as for update_strategy, and the handler
\* checks the creator once more.
transfer_strategy_ownership(signer, new_owner) ==
    LET arg == [new_owner |-> new_owner]
        fail(error) == Rejected("transfer_strategy_ownership", signer,
                                "strategy", arg, error, NoAccount)
    IN  /\ strategy # NoAccount
        /\ IF ~UpdateStrategySeeds(signer) THEN fail("ConstraintSeeds")
           ELSE IF ~UpdateStrategyConstraint(signer) THEN fail("Unauthorized")
           ELSE IF ~(signer = strategy.creator) THEN fail("Unauthorized")
           ELSE /\ strategy' = [strategy EXCEPT !.creator = new_owner]
                /\ UNCHANGED <<registry, subscription, defiVars, tradeVars>>
                /\ tx' = Tx("transfer_strategy_ownership", signer, "strategy",
                            arg, "Ok", <<>>,
                            <<"PermissionsChanged", "PermissionsChanged">>,
                            NoAccount)

TransferStrategyOwnership ==
    \E who \in GovernanceSigners, new_owner \in {Creator, "alice"} :
        /\ transfer_strategy_ownership(who, new_owner)
        /\ UNCHANGED <<clockVars, opened, outcomes, agentVars, alertVars>>

\* A seeded fault: the strategy's creator passing for the authority.
VerifyStrategyConstraintOrCreator(signer) ==
    signer = registry.authority \/ signer = strategy.creator

\* VerifyStrategy: constraint = authority.key() == registry.authority
\*                 @ ErrorCode::Unauthorized
VerifyStrategyConstraint(signer) == signer = registry.authority

verify_strategy(signer, verified) ==
    LET arg == [verified |-> verified]
    IN  /\ registry # NoAccount
        /\ strategy # NoAccount
        /\ IF ~VerifyStrategyConstraint(signer)
           THEN Rejected("verify_strategy", signer, "strategy", arg,
                         "Unauthorized", NoAccount)
           ELSE /\ strategy' = [strategy EXCEPT !.verified = verified,
                                                !.updated_at = now]
                /\ UNCHANGED <<registry, subscription, defiVars, tradeVars>>
                /\ tx' = Tx("verify_strategy", signer, "strategy", arg, "Ok",
                            <<>>, <<"StrategyUpdated">>, NoAccount)

VerifyStrategy ==
    \E who \in GovernanceSigners, verified \in BOOLEAN :
        /\ verify_strategy(who, verified)
        /\ UNCHANGED <<clockVars, opened, outcomes, agentVars, alertVars>>

\* The account `init` creates, before the handler writes to it: every byte
\* zero, the keys Pubkey::default(), for which nobody can sign.
ZeroedRegistry ==
    [authority |-> "11111111111111111111111111111111", strategy_count |-> 0,
     protocol_fee_bps |-> 0,
     fee_recipient |-> "11111111111111111111111111111111"]

\* update_protocol_fees takes Context<InitializeRegistry>, whose registry is
\* an `init` account: where the registry exists Anchor fails to create it
\* and the handler is not run; where it does not, the handler runs on the
\* account just created.
update_protocol_fees(signer, protocol_fee_bps, fee_recipient) ==
    LET arg == [protocol_fee_bps |-> protocol_fee_bps,
                fee_recipient |-> fee_recipient]
        created == ZeroedRegistry
        fail(error) == Rejected("update_protocol_fees", signer, "registry",
                                arg, error, NoAccount)
    IN  IF registry # NoAccount THEN fail("AccountAlreadyInUse")
        ELSE IF ~(signer = created.authority) THEN fail("Unauthorized")
        ELSE IF ~(protocol_fee_bps <= 1000) THEN fail("InvalidParameter")
        ELSE /\ registry' =
                   [created EXCEPT
                       !.protocol_fee_bps = protocol_fee_bps,
                       !.fee_recipient = UnwrapOr(fee_recipient, @)]
             /\ UNCHANGED <<strategy, subscription, defiVars, tradeVars>>
             /\ tx' = Tx("update_protocol_fees", signer, "registry", arg, "Ok",
                         <<>>, <<>>, NoAccount)

UpdateProtocolFees ==
    \E who \in {Admin, Creator}, fee \in RegistryFeeInputs,
       recipient \in {<<>>, <<Creator>>} :
        /\ update_protocol_fees(who, fee, recipient)
        /\ UNCHANGED <<clockVars, opened, outcomes, agentVars, alertVars>>

\* A seeded fault: NewSubscription with the mark left at zero.
NewSubscriptionNoMark(subscriber, investment_amount) ==
    [subscriber |-> subscriber, investment_amount |-> investment_amount,
     current_value |-> investment_amount, subscribed_at |-> now,
     last_fee_collection |-> now, high_water_mark |-> 0]

\* The subscription written by subscribe_to_strategy.
NewSubscription(subscriber, investment_amount) ==
    [subscriber |-> subscriber, investment_amount |-> investment_amount,
     current_value |-> investment_amount, subscribed_at |-> now,
     last_fee_collection |-> now, high_water_mark |-> investment_amount]

\* A seeded fault: the comparison of MeetsMinimum turned round.
MeetsMinimumInverted(investment_amount, min_investment) ==
    investment_amount <= min_investment

\* require!(investment_amount >= strategy.min_investment, ...)
MeetsMinimum(investment_amount, min_investment) ==
    investment_amount >= min_investment

\* A seeded fault: a paused strategy passing for an active one.
StrategyActiveOrPaused(status) == status <= 1

\* constraint = strategy.status == 0 @ ErrorCode::StrategyNotActive
StrategyActive(status) == status = 0

\* `transfer_ok` is the token program's answer to the transfer.  Anchor creates
\* the `init` subscription account first (it fails if the account exists),
\* then checks the strategy's status constraint, then runs the handler.
subscribe_to_strategy(subscriber, investment_amount, transfer_ok) ==
    LET pre  == subscription[subscriber]
        arg  == [investment_amount |-> investment_amount]
        tvl2 == CheckedAdd(strategy.tvl, investment_amount)
        cnt2 == CheckedAdd(strategy.subscriber_count, 1)
        fail(error) == Rejected("subscribe_to_strategy", subscriber, subscriber,
                                arg, error, pre)
    IN  /\ strategy # NoAccount
        /\ IF pre # NoAccount THEN fail("AccountAlreadyInUse")
           ELSE IF ~StrategyActive(strategy.status) THEN fail("StrategyNotActive")
           ELSE IF ~MeetsMinimum(investment_amount, strategy.min_investment)
                THEN fail("BelowMinimumInvestment")
           ELSE IF ~IsSome(tvl2) \/ ~IsSome(cnt2) THEN fail("Panic")
           ELSE IF ~transfer_ok THEN fail("InsufficientFunds")
           ELSE /\ subscription' =
                      [subscription EXCEPT
                          ![subscriber] = NewSubscription(subscriber, investment_amount)]
                /\ strategy' = [strategy EXCEPT !.tvl = Unwrap(tvl2),
                                                !.subscriber_count = Unwrap(cnt2)]
                /\ UNCHANGED <<registry, defiVars, tradeVars>>
                /\ tx' = Tx("subscribe_to_strategy", subscriber, subscriber,
                            arg, "Ok",
                            <<Transfer(subscriber, Custody, investment_amount)>>,
                            <<"StrategyUpdated">>, pre)

SubscribeToStrategy(S) ==
    \E s \in S, a \in AmountInputs, ok \in BOOLEAN :
        /\ opened < MaxSubscribes
        /\ subscribe_to_strategy(s, a, ok)
        /\ opened' = IF tx'.result = "Ok" THEN opened + 1 ELSE opened
        /\ UNCHANGED <<clockVars, outcomes, agentVars, alertVars>>

\* The strategy account of UnsubscribeFromStrategy is not `mut`: Anchor does
\* not write it back when the instruction ends, so what the handler assigns
\* to strategy.tvl (tvl2) and strategy.subscriber_count (cnt2) is lost.
\* `close = subscriber` closes the subscription account.  The subscription is
\* the PDA of the signer (ConstraintSeeds otherwise).
unsubscribe_from_strategy(signer, account, transfer_ok) ==
    LET pre           == subscription[account]
        current_value == pre.current_value
        tvl2          == UnwrapOr(CheckedSub(strategy.tvl, current_value), 0)
        cnt2          == UnwrapOr(CheckedSub(strategy.subscriber_count, 1), 0)
        fail(error) == Rejected("unsubscribe_from_strategy", signer, account,
                                NoArgs, error, pre)
    IN  /\ strategy # NoAccount
        /\ pre # NoAccount
        /\ IF signer # account THEN fail("ConstraintSeeds")
           ELSE IF signer # pre.subscriber THEN fail("Unauthorized")
           ELSE IF ~transfer_ok THEN fail("InsufficientFunds")
           ELSE /\ subscription' = [subscription EXCEPT ![account] = NoAccount]
                /\ UNCHANGED <<registry, strategy, defiVars, tradeVars>>
                /\ tx' = Tx("unsubscribe_from_strategy", signer, account, NoArgs,
                            "Ok", <<Transfer(Custody, signer, current_value)>>,
                            <<"StrategyUpdated">>, pre)

UnsubscribeFromStrategy(S) ==
    \E who \in Subscribers, s \in S, ok \in BOOLEAN :
        /\ unsubscribe_from_strategy(who, s, ok)
        /\ UNCHANGED <<clockVars, opened, outcomes, agentVars, alertVars>>

(***************************************************************************)
(* The value update and the fee sweeps share the UpdateStrategyValue        *)
(* accounts: the signer must be the registry's authority.                   *)
(***************************************************************************)
\* A seeded fault: the subscribers passing for the authority.
UpdateStrategyValueConstraintOrSubscriber(signer) ==
    signer = registry.authority \/ signer \in Subscribers

\* UpdateStrategyValue: constraint = authority.key() == registry.authority
\*                      @ ErrorCode::Unauthorized
UpdateStrategyValueConstraint(signer) == signer = registry.authority

\* |new - old| / old * 100.0 >= 5.0, in f64 as the handler computes it; the
\* change is 0.0 when old_value is 0.
SignificantChange(old_value, new_value) ==
    IF old_value > 0
    THEN LET diff == IF new_value >= old_value THEN new_value - old_value
                     ELSE old_value - new_value
         IN  F64Ge(F64Mul(F64DivInt(diff, old_value), F64FromInt(100)), F64FromInt(5))
    ELSE FALSE

\* A seeded fault: the subtraction skipped where it would go below zero.
TvlAfterUpdateSkippingUnderflow(tvl, old_value, new_value) ==
    CheckedAdd(UnwrapOr(CheckedSub(tvl, old_value), tvl), new_value)

\* A seeded fault: the new value added without the old one taken off.
TvlAfterUpdateKeepingOld(tvl, old_value, new_value) == CheckedAdd(tvl, new_value)

\* strategy.tvl.checked_sub(old_value).unwrap_or(0), then
\* .checked_add(new_value), which the handler unwraps.
TvlAfterUpdate(tvl, old_value, new_value) ==
    CheckedAdd(UnwrapOr(CheckedSub(tvl, old_value), 0), new_value)

\* A seeded fault: the mark left where it was.
RaisedMarkKept(high_water_mark, new_value) == high_water_mark

\* if new_value > subscription.high_water_mark { high_water_mark = new_value }
RaisedMark(high_water_mark, new_value) ==
    IF new_value > high_water_mark THEN new_value ELSE high_water_mark

update_strategy_value(signer, account, new_value, returns_bps) ==
    LET pre       == subscription[account]
        arg       == [new_value |-> new_value, returns_bps |-> returns_bps]
        old_value == pre.current_value
        tvl2      == TvlAfterUpdate(strategy.tvl, old_value, new_value)
        fail(error) == Rejected("update_strategy_value", signer, account,
                                arg, error, pre)
    IN  /\ strategy # NoAccount
        /\ pre # NoAccount
        /\ IF ~UpdateStrategyValueConstraint(signer) THEN fail("Unauthorized")
           ELSE IF ~IsSome(tvl2) THEN fail("Panic")
           ELSE /\ subscription' =
                      [subscription EXCEPT
                          ![account].current_value = new_value,
                          ![account].high_water_mark =
                              RaisedMark(@, new_value)]
                /\ strategy' =
                      [strategy EXCEPT
                          !.tvl = Unwrap(tvl2),
                          !.total_returns_bps = TruncDiv2(@ + returns_bps)]
                /\ UNCHANGED <<registry, defiVars, tradeVars>>
                /\ tx' = Tx("update_strategy_value", signer, account, arg,
                            "Ok", <<>>,
                            IF SignificantChange(old_value, new_value)
                            THEN IF new_value >= old_value
                                 THEN <<"PortfolioRebalanced">>
                                 ELSE <<"HighExposureWarning">>
                            ELSE <<>>,
                            pre)

UpdateStrategyValue(S) ==
    \E who \in {Admin, Creator}, s \in S, v \in NewValueInputs,
       r \in ReturnsInputs :
        /\ update_strategy_value(who, s, v, r)
        /\ UNCHANGED <<clockVars, opened, outcomes, agentVars, alertVars>>

\* (current_value as f64 * fee_ratio * time_ratio) as u64
ManagementFeeAmount(current_value, management_fee_bps, seconds_elapsed) ==
    F64ToU64(F64Mul(F64Mul(F64FromInt(current_value),
                           F64DivInt(management_fee_bps, 10000)),
                    F64DivInt(seconds_elapsed, 365 * 86400)))

\* A seeded fault: the accrual window of AccrualWindowOpen a second short.
AccrualWindowEarly(seconds_elapsed) == seconds_elapsed >= 86399

\* Fees accrue once a day at most: `if seconds_elapsed < 86400 { return Ok(()) }`
AccrualWindowOpen(seconds_elapsed) == ~(seconds_elapsed < 86400)

collect_management_fees(signer, account) ==
    LET pre             == subscription[account]
        seconds_elapsed == now - pre.last_fee_collection
        fee_amount      == ManagementFeeAmount(pre.current_value,
                                               strategy.management_fee_bps,
                                               seconds_elapsed)
    IN  /\ strategy # NoAccount
        /\ pre # NoAccount
        /\ IF ~UpdateStrategyValueConstraint(signer)
           THEN Rejected("collect_management_fees", signer, account, NoArgs,
                         "Unauthorized", pre)
           ELSE /\ subscription' =
                      IF ~AccrualWindowOpen(seconds_elapsed) THEN subscription
                      ELSE [subscription EXCEPT
                              ![account].current_value =
                                  UnwrapOr(CheckedSub(@, fee_amount), @),
                              ![account].last_fee_collection = now]
                /\ UNCHANGED <<registry, strategy, defiVars, tradeVars>>
                /\ tx' = Tx("collect_management_fees", signer, account, NoArgs,
                            "Ok", <<>>, <<>>, pre)

CollectManagementFees(S) ==
    \E who \in {Admin, Creator}, s \in S :
        /\ collect_management_fees(who, s)
        /\ UNCHANGED <<clockVars, opened, outcomes, agentVars, alertVars>>

\* (profit as f64 * fee_ratio) as u64
PerformanceFeeAmount(profit, performance_fee_bps) ==
    F64ToU64(F64Mul(F64FromInt(profit), F64DivInt(performance_fee_bps, 10000)))

\* A seeded fault: PerformanceFeeSweep without re-levelling the mark.
SweepKeepingMark(sub, performance_fee_bps) ==
    IF sub.current_value <= sub.high_water_mark THEN sub
    ELSE LET profit     == sub.current_value - sub.high_water_mark
             fee_amount == PerformanceFeeAmount(profit, performance_fee_bps)
         IN  [sub EXCEPT !.current_value =
                             UnwrapOr(CheckedSub(sub.current_value, fee_amount),
                                      sub.current_value)]

\* A seeded fault: PerformanceFeeSweep charging the whole current_value.
SweepOfWholeValue(sub, performance_fee_bps) ==
    IF sub.current_value <= sub.high_water_mark THEN sub
    ELSE LET fee_amount == PerformanceFeeAmount(sub.current_value,
                                                performance_fee_bps)
             value      == UnwrapOr(CheckedSub(sub.current_value, fee_amount),
                                    sub.current_value)
         IN  [sub EXCEPT !.current_value = value, !.high_water_mark = value]

\* The subscription after collect_performance_fees.
PerformanceFeeSweep(sub, performance_fee_bps) ==
    IF sub.current_value <= sub.high_water_mark THEN sub
    ELSE LET profit     == sub.current_value - sub.high_water_mark
             fee_amount == PerformanceFeeAmount(profit, performance_fee_bps)
             value      == UnwrapOr(CheckedSub(sub.current_value, fee_amount),
                                    sub.current_value)
         IN  [sub EXCEPT !.current_value = value, !.high_water_mark = value]

collect_performance_fees(signer, account) ==
    LET pre == subscription[account]
    IN  /\ strategy # NoAccount
        /\ pre # NoAccount
        /\ IF ~UpdateStrategyValueConstraint(signer)
           THEN Rejected("collect_performance_fees", signer, account, NoArgs,
                         "Unauthorized", pre)
           ELSE /\ subscription' =
                      [subscription EXCEPT
                          ![account] =
                              PerformanceFeeSweep(@, strategy.performance_fee_bps)]
                /\ UNCHANGED <<registry, strategy, defiVars, tradeVars>>
                /\ tx' = Tx("collect_performance_fees", signer, account, NoArgs,
                            "Ok", <<>>, <<>>, pre)

CollectPerformanceFees(S) ==
    \E who \in {Admin, Creator}, s \in S :
        /\ collect_performance_fees(who, s)
        /\ UNCHANGED <<clockVars, opened, outcomes, agentVars, alertVars>>

\* The three instructions of the UpdateStrategyValue accounts, called by the
\* authority, the strategy's creator or the subscriber.
ValueSigners == {Admin, Creator, "alice"}

UpdateStrategyValueBy(Who, S) ==
    \E who \in Who, s \in S, v \in NewValueInputs, r \in ReturnsInputs :
        /\ update_strategy_value(who, s, v, r)
        /\ UNCHANGED <<clockVars, opened, outcomes, agentVars, alertVars>>

CollectManagementFeesBy(Who, S) ==
    \E who \in Who, s \in S :
        /\ collect_management_fees(who, s)
        /\ UNCHANGED <<clockVars, opened, outcomes, agentVars, alertVars>>

CollectPerformanceFeesBy(Who, S) ==
    \E who \in Who, s \in S :
        /\ collect_performance_fees(who, s)
        /\ UNCHANGED <<clockVars, opened, outcomes, agentVars, alertVars>>

(***************************************************************************)
(* defi_strategy.rs, the native program.  Only process_create_strategy      *)
(* serializes what it computes; the writes of process_subscribe_to_strategy *)
(* and process_unsubscribe_from_strategy are commented out, so these two    *)
(* change no account.  The program never writes a position account: the    *)
(* UserPosition the handlers deserialize is an input of the model.  Names,  *)
(* descriptions and tags are within their length limits.                    *)
(***************************************************************************)
DefiStrategyKey == "defi_strategy"

LockupInputs == {0, 1, 2}

\* The last sums to 600 more than a u64 holds.
InvestmentInputs == {<<>>, <<100>>, <<300, 700>>, <<U64_MAX, 601>>}

SubscriptionTimeInputs == {0, 1}

RECURSIVE SumAmounts(_)
\* investment_amounts.iter().map(|inv| inv.initial_amount).sum()
SumAmounts(s) == IF s = <<>> THEN 0 ELSE Head(s) + SumAmounts(Tail(s))

\* A transaction of the native program that returned an error.
Failed(ix, signer, account, arg, error, pre) ==
    /\ tx' = Tx(ix, signer, account, arg, error, <<>>, <<>>, pre)
    /\ UNCHANGED <<ledgerVars, defiVars, tradeVars>>

process_create_strategy(creator, is_signer, lockup_period, min_investment, fee_percentage, token_count, protocol_count) ==
    LET arg == [lockup_period |-> lockup_period, min_investment |-> min_investment,
                fee_percentage |-> fee_percentage, token_count |-> token_count,
                protocol_count |-> protocol_count]
        fail(error) == Failed("process_create_strategy", creator,
                              DefiStrategyKey, arg, error, NoAccount)
    IN  IF ~is_signer THEN fail("MissingRequiredSignature")
        ELSE IF token_count > 10 \/ token_count = 0
             THEN fail("InvalidInstructionData")
        ELSE IF protocol_count > 10 \/ protocol_count = 0
             THEN fail("InvalidInstructionData")
        ELSE /\ defi_strategy' =
                   [version |-> 1, creator |-> creator, tvl |-> 0,
                    user_count |-> 0, lockup_period |-> lockup_period,
                    min_investment |-> min_investment,
                    fee_percentage |-> fee_percentage,
                    token_count |-> token_count,
                    protocol_count |-> protocol_count, verified |-> FALSE]
             /\ UNCHANGED <<ledgerVars, position, tradeVars>>
             /\ tx' = Tx("process_create_strategy", creator, DefiStrategyKey,
                         arg, "Ok", <<>>, <<>>, NoAccount)

ProcessCreateStrategy ==
    \E is_signer \in BOOLEAN, lockup \in LockupInputs,
       min \in MinInvestmentInputs, tokens \in {0, 1} :
        /\ process_create_strategy(Creator, is_signer, lockup, min, 30, tokens, 1)
        /\ UNCHANGED <<clockVars, opened, outcomes, agentVars, alertVars>>

\* `iter().sum()` and `+=` on u64: a build with overflow checks panics where
\* the result does not fit, a build without them (the default of the release
\* profile) keeps the low bits.  <<>> is the panic.
UncheckedAdd(a, b, overflow_checks) ==
    IF a + b <= U64_MAX THEN <<a + b>>
    ELSE IF overflow_checks THEN <<>>
    ELSE <<(a + b) % (U64_MAX + 1)>>

\* The position and the strategy totals the handler computes are dropped when
\* it returns: both serialize calls are commented out.
process_subscribe_to_strategy(subscriber, is_signer, investment_amounts, overflow_checks) ==
    LET arg == [investment_amounts |-> investment_amounts]
        total == UncheckedAdd(0, SumAmounts(investment_amounts), overflow_checks)
        total_investment == Unwrap(total)
        user_position ==
            [version |-> 1, owner |-> subscriber, strategy |-> DefiStrategyKey,
             initial_investment |-> total_investment,
             current_value |-> total_investment, subscription_time |-> now,
             last_harvest_time |-> now,
             performance_fee_rate |-> defi_strategy.fee_percentage]
        tvl2 == UncheckedAdd(defi_strategy.tvl, total_investment, overflow_checks)
        cnt2 == UncheckedAdd(defi_strategy.user_count, 1, overflow_checks)
        fail(error) == Failed("process_subscribe_to_strategy", subscriber,
                              subscriber, arg, error, position)
    IN  /\ defi_strategy # NoAccount
        /\ IF ~is_signer THEN fail("MissingRequiredSignature")
           ELSE IF investment_amounts = <<>> \/ Len(investment_amounts) > 10
                THEN fail("InvalidInstructionData")
           ELSE IF ~IsSome(total) THEN fail("Panic")
           ELSE IF total_investment < defi_strategy.min_investment
                THEN fail("InvalidArgument")
           ELSE IF ~IsSome(tvl2) \/ ~IsSome(cnt2) THEN fail("Panic")
           ELSE /\ UNCHANGED <<ledgerVars, defiVars, tradeVars>>
                /\ tx' = Tx("process_subscribe_to_strategy", subscriber,
                            subscriber, arg, "Ok", <<>>, <<>>, position)

ProcessSubscribeToStrategy ==
    \E s \in Subscribers, is_signer \in BOOLEAN, a \in InvestmentInputs,
       overflow_checks \in BOOLEAN :
        /\ process_subscribe_to_strategy(s, is_signer, a, overflow_checks)
        /\ UNCHANGED <<clockVars, opened, outcomes, agentVars, alertVars>>

\* subscription_time_secs + (strategy.lockup_period as i64 * 24 * 60 * 60)
LockupEnd(subscription_time, lockup_period) ==
    subscription_time + lockup_period * 24 * 60 * 60

process_unsubscribe_from_strategy(signer, is_signer) ==
    LET tvl2 == IF defi_strategy.tvl >= position.current_value
                THEN defi_strategy.tvl - position.current_value ELSE 0
        cnt2 == IF defi_strategy.user_count > 0
                THEN defi_strategy.user_count - 1 ELSE defi_strategy.user_count
        fail(error) == Failed("process_unsubscribe_from_strategy", signer,
                              position.owner, NoArgs, error, position)
    IN  /\ defi_strategy # NoAccount
        /\ position # NoAccount
        /\ IF ~is_signer THEN fail("MissingRequiredSignature")
           ELSE IF position.owner # signer THEN fail("InvalidAccountData")
           ELSE IF position.strategy # DefiStrategyKey
                THEN fail("InvalidAccountData")
           ELSE IF now < LockupEnd(position.subscription_time,
                                   defi_strategy.lockup_period)
                THEN fail("InvalidArgument")
           ELSE /\ UNCHANGED <<ledgerVars, defiVars, tradeVars>>
                /\ tx' = Tx("process_unsubscribe_from_strategy", signer,
                            position.owner, NoArgs, "Ok", <<>>, <<>>, position)

ProcessUnsubscribeFromStrategy ==
    \E who \in Subscribers, is_signer \in BOOLEAN :
        /\ process_unsubscribe_from_strategy(who, is_signer)
        /\ UNCHANGED <<clockVars, opened, outcomes, agentVars, alertVars>>

(***************************************************************************)
(* ai_trading.rs                                                           *)
(***************************************************************************)
MaxPositionInputs == {100}

RiskLevelInputs == {2}

TradeAmountInputs == {100, 101}

ConfidenceInputs == {64, 80}

PublishTimeInputs == {0, 1}

ProfitLossInputs == {-5}

\* <<max_position_size, risk_level, paused>>, each an Option.
ParameterInputs ==
    {<<<<>>, <<>>, <<TRUE>>>>, <<<<>>, <<>>, <<FALSE>>>>,
     <<<<>>, <<5>>, <<>>>>, <<<<50>>, <<11>>, <<>>>>}

\* Risk levels on both sides of every tier boundary; initialize accepts any u8.
RiskTierInputs == {0, 1, 2, 3, 4, 7, 8, 10, 11}

\* Confidence values on both sides of every threshold.
ThresholdInputs == {49, 50, 64, 65, 70, 79, 80}

\* The clock of the trading program moves by seconds.
TradeClockSteps == {1, 30}

\* PriceUpdateV2::get_price_no_older_than of the Pyth receiver SDK: the price,
\* unless the update is older than maximum_age seconds.
get_price_no_older_than(price_update, clock, maximum_age) ==
    IF clock - price_update.publish_time > maximum_age THEN <<>>
    ELSE <<price_update.price>>

\* A seeded fault: the price taken whatever its age (get_price_unchecked).
price_info_unchecked(price_update) == <<price_update.price>>

\* price_update.get_price_no_older_than(&Clock::get()?, 30, &sol_usd_feed_id)
price_info(price_update) == get_price_no_older_than(price_update, now, 30)

initialize(authority, max_position_size, risk_level) ==
    /\ trading_state = NoAccount
    /\ trading_state' =
           [authority |-> authority, initialized |-> TRUE, paused |-> FALSE,
            max_position_size |-> max_position_size, risk_level |-> risk_level,
            total_trades |-> 0, successful_trades |-> 0, total_profit_loss |-> 0]
    /\ UNCHANGED <<ledgerVars, defiVars, trade_record>>
    /\ tx' = Tx("initialize", authority, "trading_state",
                [max_position_size |-> max_position_size,
                 risk_level |-> risk_level], "Ok", <<>>, <<>>, NoAccount)

Initialize ==
    \E size \in MaxPositionInputs, risk \in RiskLevelInputs :
        /\ initialize(Admin, size, risk)
        /\ UNCHANGED <<clockVars, opened, outcomes, agentVars, alertVars>>

\* The system initialized at any risk level.
InitializeTier ==
    \E size \in MaxPositionInputs, risk \in RiskTierInputs :
        /\ initialize(Admin, size, risk)
        /\ UNCHANGED <<clockVars, opened, outcomes, agentVars, alertVars>>

\* A seeded fault: one threshold for every risk level.
min_confidence_medium(risk_level) == 65

\* match trading_state.risk_level { 1..=3 => 80, 4..=7 => 65, _ => 50 }
min_confidence(risk_level) ==
    IF 1 <= risk_level /\ risk_level <= 3 THEN 80
    ELSE IF 4 <= risk_level /\ risk_level <= 7 THEN 65
    ELSE 50

\* A seeded fault: the position limit one token too wide.
WithinPositionOrOneMore(amount, max_position_size) ==
    amount <= max_position_size + 1

\* require!(amount <= trading_state.max_position_size, ...)
WithinPosition(amount, max_position_size) == amount <= max_position_size

\* A transaction of the trading program that returned an error.
TradeRejected(ix, signer, arg, error) ==
    /\ tx' = Tx(ix, signer, "trading_state", arg, error, <<>>, <<>>, NoAccount)
    /\ UNCHANGED <<ledgerVars, defiVars, tradeVars>>

\* A seeded fault: execute_trade checking the authority before the pause.
execute_trade_authority_first(signer, amount, side, confidence, strategy_id, price_update, transfer_ok) ==
    LET arg == [amount |-> amount, side |-> side, confidence |-> confidence,
                strategy_id |-> strategy_id, price_update |-> price_update]
        price == get_price_no_older_than(price_update, now, 30)
        fail(error) == TradeRejected("execute_trade", signer, arg, error)
    IN  /\ trading_state # NoAccount
        /\ IF signer # trading_state.authority THEN fail("Unauthorized")
           ELSE IF trading_state.paused THEN fail("TradingPaused")
           ELSE IF ~IsSome(price) THEN fail("PriceTooOld")
           ELSE IF ~(confidence >= min_confidence(trading_state.risk_level))
                THEN fail("InsufficientConfidence")
           ELSE IF ~(amount <= trading_state.max_position_size)
                THEN fail("PositionTooLarge")
           ELSE IF ~transfer_ok THEN fail("InsufficientFunds")
           ELSE /\ trading_state' =
                      [trading_state EXCEPT !.total_trades = @ + 1]
                /\ trade_record' =
                      Append(trade_record,
                             [authority |-> signer, timestamp |-> now,
                              amount |-> amount, side |-> side,
                              price |-> Unwrap(price), confidence |-> confidence,
                              strategy_id |-> strategy_id, successful |-> FALSE,
                              profit_loss |-> 0])
                /\ UNCHANGED <<ledgerVars, defiVars>>
                /\ tx' = Tx("execute_trade", signer, "trading_state", arg, "Ok",
                            <<Transfer("source_account", "destination_account",
                                       amount)>>, <<>>, NoAccount)

execute_trade(signer, amount, side, confidence, strategy_id, price_update, transfer_ok) ==
    LET arg == [amount |-> amount, side |-> side, confidence |-> confidence,
                strategy_id |-> strategy_id, price_update |-> price_update]
        price == price_info(price_update)
        fail(error) == TradeRejected("execute_trade", signer, arg, error)
    IN  /\ trading_state # NoAccount
        /\ IF trading_state.paused THEN fail("TradingPaused")
           ELSE IF signer # trading_state.authority THEN fail("Unauthorized")
           ELSE IF ~IsSome(price) THEN fail("PriceTooOld")
           ELSE IF ~(confidence >= min_confidence(trading_state.risk_level))
                THEN fail("InsufficientConfidence")
           ELSE IF ~WithinPosition(amount, trading_state.max_position_size)
                THEN fail("PositionTooLarge")
           ELSE IF ~transfer_ok THEN fail("InsufficientFunds")
           ELSE /\ trading_state' =
                      [trading_state EXCEPT !.total_trades = @ + 1]
                /\ trade_record' =
                      Append(trade_record,
                             [authority |-> signer, timestamp |-> now,
                              amount |-> amount, side |-> side,
                              price |-> Unwrap(price), confidence |-> confidence,
                              strategy_id |-> strategy_id, successful |-> FALSE,
                              profit_loss |-> 0])
                /\ UNCHANGED <<ledgerVars, defiVars>>
                /\ tx' = Tx("execute_trade", signer, "trading_state", arg, "Ok",
                            IF side = "Buy"
                            THEN <<Transfer("source_account",
                                            "destination_account", amount)>>
                            ELSE <<Transfer("destination_account",
                                            "source_account", amount)>>,
                            <<>>, NoAccount)

ExecuteTrade ==
    \E who \in {Admin, Creator}, amount \in TradeAmountInputs,
       side \in {"Buy", "Sell"}, confidence \in ConfidenceInputs,
       publish_time \in PublishTimeInputs, ok \in BOOLEAN :
        /\ execute_trade(who, amount, side, confidence, 1,
                         [publish_time |-> publish_time, price |-> 150], ok)
        /\ Len(trade_record') <= MaxTrades
        /\ UNCHANGED <<clockVars, opened, outcomes, agentVars, alertVars>>

\* Trades by the authority on a fresh quote, at every confidence.
ExecuteTradeThreshold ==
    \E amount \in TradeAmountInputs, confidence \in ThresholdInputs :
        /\ execute_trade(Admin, amount, "Buy", confidence, 1,
                         [publish_time |-> now, price |-> 150], TRUE)
        /\ Len(trade_record') <= MaxTrades
        /\ UNCHANGED <<clockVars, opened, outcomes, agentVars, alertVars>>

\* A seeded fault: update_parameters open to any caller.
update_parameters_by_anyone(signer, max_position_size, risk_level, paused) ==
    LET arg == [max_position_size |-> max_position_size,
                risk_level |-> risk_level, paused |-> paused]
    IN  /\ trading_state # NoAccount
        /\ IF IsSome(risk_level) /\ ~(Unwrap(risk_level) <= 10)
           THEN TradeRejected("update_parameters", signer, arg, "InvalidRiskLevel")
           ELSE /\ trading_state' =
                      [trading_state EXCEPT
                          !.max_position_size = UnwrapOr(max_position_size, @),
                          !.risk_level = UnwrapOr(risk_level, @),
                          !.paused = UnwrapOr(paused, @)]
                /\ UNCHANGED <<ledgerVars, defiVars, trade_record>>
                /\ tx' = Tx("update_parameters", signer, "trading_state", arg,
                            "Ok", <<>>, <<>>, NoAccount)

\* Each argument is an Option: <<>> is None.
update_parameters(signer, max_position_size, risk_level, paused) ==
    LET arg == [max_position_size |-> max_position_size,
                risk_level |-> risk_level, paused |-> paused]
    IN  /\ trading_state # NoAccount
        /\ IF signer # trading_state.authority
           THEN TradeRejected("update_parameters", signer, arg, "Unauthorized")
           ELSE IF IsSome(risk_level) /\ ~(Unwrap(risk_level) <= 10)
           THEN TradeRejected("update_parameters", signer, arg, "InvalidRiskLevel")
           ELSE /\ trading_state' =
                      [trading_state EXCEPT
                          !.max_position_size = UnwrapOr(max_position_size, @),
                          !.risk_level = UnwrapOr(risk_level, @),
                          !.paused = UnwrapOr(paused, @)]
                /\ UNCHANGED <<ledgerVars, defiVars, trade_record>>
                /\ tx' = Tx("update_parameters", signer, "trading_state", arg,
                            "Ok", <<>>, <<>>, NoAccount)

UpdateParameters ==
    \E who \in {Admin, Creator}, p \in ParameterInputs :
        /\ update_parameters(who, p[1], p[2], p[3])
        /\ UNCHANGED <<clockVars, opened, outcomes, agentVars, alertVars>>

\* `record` is the trade record account passed, `trade_id` the key claimed.
update_trade_outcome(signer, record, trade_id, successful, profit_loss) ==
    LET arg == [record |-> record, trade_id |-> trade_id,
                successful |-> successful, profit_loss |-> profit_loss]
    IN  /\ trading_state # NoAccount
        /\ record \in DOMAIN trade_record
        /\ IF signer # trading_state.authority
           THEN TradeRejected("update_trade_outcome", signer, arg, "Unauthorized")
           ELSE IF record # trade_id
           THEN TradeRejected("update_trade_outcome", signer, arg,
                              "InvalidTradeRecord")
           ELSE /\ trade_record' =
                      [trade_record EXCEPT ![record].successful = successful,
                                           ![record].profit_loss = profit_loss]
                /\ trading_state' =
                      [trading_state EXCEPT
                          !.successful_trades =
                              IF successful THEN @ + 1 ELSE @,
                          !.total_profit_loss = @ + profit_loss]
                /\ UNCHANGED <<ledgerVars, defiVars>>
                /\ tx' = Tx("update_trade_outcome", signer, "trading_state", arg,
                            "Ok", <<>>, <<>>, NoAccount)

UpdateTradeOutcome ==
    \E who \in {Admin, Creator}, record \in DOMAIN trade_record,
       id \in 1..2, successful \in BOOLEAN, pl \in ProfitLossInputs :
        /\ outcomes < MaxOutcomes
        /\ update_trade_outcome(who, record, id, successful, pl)
        /\ outcomes' = IF tx'.result = "Ok" THEN outcomes + 1 ELSE outcomes
        /\ UNCHANGED <<clockVars, opened, agentVars, alertVars>>

(***************************************************************************)
(* lib.rs, the agent program.  One agent is modelled, the one whose        *)
(* accounts are derived from the key of AgentOwner.                        *)
(***************************************************************************)
AgentOwner == "alice"

\* The signers of the agent's instructions: the owner and a stranger.
AgentSigners == {"alice", "bob"}

\* require!(agent_config.strategies.len() < 10, ...)
MAX_STRATEGIES == 10

\* if agent_stats.performance_data.len() > 30
MAX_PERFORMANCE_POINTS == 30

\* require!(allocations.len() <= 20, ...)
MAX_ALLOCATIONS == 20

\* target_percentage and its sum are u16.
U16_MAX == 65535

\* A name or a byte string of the given length.
Bytes(n) == [i \in 1..n |-> 0]

NameInputs == {Bytes(0), Bytes(3), Bytes(51)}

\* <<name, parameters>> of add_strategy: one pair in bounds, and one out of
\* bounds for each check.
StrategyInputs ==
    {<<Bytes(3), Bytes(2)>>, <<Bytes(0), Bytes(2)>>, <<Bytes(51), Bytes(2)>>,
     <<Bytes(3), Bytes(1025)>>}

StrategyIdInputs == {1, 10, 11}

\* <<input_mint, input_amount, reason>> of record_trade: amounts in bounds,
\* the second at the end of the u64 range, and one triple out of bounds for
\* each check.
TradeInputs ==
    {<<"usdc", 100, Bytes(0)>>, <<"usdc", U64_MAX, Bytes(0)>>,
     <<"no_mint", 100, Bytes(0)>>, <<"usdc", 0, Bytes(0)>>,
     <<"usdc", 100, Bytes(201)>>}

\* The body of is_valid_token_mint is not part of the sources: a predicate
\* of the mint alone, which holds of some mints and not of others.
is_valid_token_mint(mint) == mint # "no_mint"

\* An instruction of the agent program that failed.
AgentRejected(ix, signer, arg, error) ==
    /\ tx' = Tx(ix, signer, "agent_config", arg, error, <<>>, <<>>, NoAccount)
    /\ UNCHANGED agentVars

\* The accounts the agent program does not touch.
NotOfAgent ==
    UNCHANGED <<ledgerVars, opened, defiVars, tradeVars, outcomes, alertVars>>

initialize_agent(owner, name, description, risk_profile) ==
    LET arg == [name |-> name, description |-> description,
                risk_profile |-> risk_profile]
    IN  /\ owner = AgentOwner
        /\ IF agent_config # NoAccount
           THEN AgentRejected("initialize_agent", owner, arg, "AccountAlreadyInUse")
           ELSE IF Len(name) = 0
           THEN AgentRejected("initialize_agent", owner, arg, "InvalidName")
           ELSE IF Len(name) > 50
           THEN AgentRejected("initialize_agent", owner, arg, "NameTooLong")
           ELSE IF Len(description) > 200
           THEN AgentRejected("initialize_agent", owner, arg, "DescriptionTooLong")
           ELSE /\ agent_config' =
                      [initialized |-> TRUE, owner |-> owner, name |-> name,
                       risk_profile |-> risk_profile, status |-> "Inactive",
                       updated_at |-> now, strategies |-> <<>>,
                       target_allocations |-> <<>>,
                       total_executed_trades |-> 0, total_trade_volume |-> 0]
                /\ agent_stats' =
                      [initialized |-> TRUE, owner |-> owner,
                       total_trades |-> 0, successful_trades |-> 0,
                       failed_trades |-> 0, total_volume |-> 0,
                       profit_loss |-> 0, last_updated_at |-> now,
                       performance_data |-> <<>>]
                /\ UNCHANGED <<trade_action, recorded>>
                /\ tx' = Tx("initialize_agent", owner, "agent_config", arg, "Ok",
                            <<>>, <<"AgentInitialized">>, NoAccount)

InitializeAgent ==
    \E name \in NameInputs, description \in {Bytes(0), Bytes(201)} :
        /\ initialize_agent(AgentOwner, name, description, "Moderate")
        /\ NotOfAgent
        /\ UNCHANGED clockVars

\* seeds = [b"agent", owner.key().as_ref()] of UpdateAgentConfig and
\* UpdateAgentStatus: the agent's address is derived from the signer's key.
AgentSeeds(signer) == signer = AgentOwner

\* constraint = agent_config.owner == owner.key() @ ErrorCode::Unauthorized
AgentOwnerConstraint(signer) == signer = agent_config.owner

\* The error Anchor returns before the handler runs, "Ok" where there is none.
UpdateAgentConfigAccounts(signer) ==
    IF ~AgentSeeds(signer) THEN "ConstraintSeeds"
    ELSE IF ~AgentOwnerConstraint(signer) THEN "Unauthorized"
    ELSE "Ok"

\* agent_config.strategies.iter().position(|s| s.id == strategy_id), 0 for None
Position(strategies, strategy_id) ==
    LET found == {i \in DOMAIN strategies : strategies[i].id = strategy_id}
    IN  IF found = {} THEN 0 ELSE CHOOSE i \in found : \A j \in found : i <= j

\* Vec::remove(index)
Remove(list, index) ==
    [i \in 1..(Len(list) - 1) |-> IF i < index THEN list[i] ELSE list[i + 1]]

\* A seeded fault: the limit checked after the push.
HasRoomForOneMore(strategies) == Len(strategies) <= MAX_STRATEGIES

\* require!(agent_config.strategies.len() < 10, ErrorCode::TooManyStrategies)
HasRoom(strategies) == Len(strategies) < MAX_STRATEGIES

add_strategy(signer, strategy_id, name, strategy_type, parameters, is_active) ==
    LET arg == [strategy_id |-> strategy_id, name |-> name,
                strategy_type |-> strategy_type, parameters |-> parameters,
                is_active |-> is_active]
        accounts == UpdateAgentConfigAccounts(signer)
        index == Position(agent_config.strategies, strategy_id)
        fail(error) == AgentRejected("add_strategy", signer, arg, error)
    IN  /\ agent_config # NoAccount
        /\ IF accounts # "Ok" THEN fail(accounts)
           ELSE IF Len(name) = 0 THEN fail("InvalidName")
           ELSE IF Len(name) > 50 THEN fail("NameTooLong")
           ELSE IF Len(parameters) > 1024 THEN fail("ParametersTooLarge")
           ELSE IF index = 0 /\ ~HasRoom(agent_config.strategies)
           THEN fail("TooManyStrategies")
           ELSE /\ agent_config' =
                      [agent_config EXCEPT
                          !.strategies =
                              IF index # 0
                              THEN [@ EXCEPT ![index].name = name,
                                             ![index].strategy_type = strategy_type,
                                             ![index].is_active = is_active,
                                             ![index].parameters = parameters]
                              ELSE Append(@, [id |-> strategy_id, name |-> name,
                                              strategy_type |-> strategy_type,
                                              is_active |-> is_active,
                                              parameters |-> parameters,
                                              last_executed_at |-> 0,
                                              execution_count |-> 0]),
                          !.updated_at = now]
                /\ UNCHANGED <<agent_stats, trade_action, recorded>>
                /\ tx' = Tx("add_strategy", signer, "agent_config", arg, "Ok",
                            <<>>, <<"StrategyUpdated">>, NoAccount)

AddStrategy(Ids) ==
    \E signer \in AgentSigners, id \in Ids, in \in StrategyInputs,
       is_active \in BOOLEAN :
        /\ add_strategy(signer, id, in[1], "Custom", in[2], is_active)
        /\ NotOfAgent
        /\ UNCHANGED clockVars

remove_strategy(signer, strategy_id) ==
    LET arg == [strategy_id |-> strategy_id]
        accounts == UpdateAgentConfigAccounts(signer)
        index == Position(agent_config.strategies, strategy_id)
        fail(error) == AgentRejected("remove_strategy", signer, arg, error)
    IN  /\ agent_config # NoAccount
        /\ IF accounts # "Ok" THEN fail(accounts)
           ELSE IF index = 0 THEN fail("StrategyNotFound")
           ELSE /\ agent_config' =
                      [agent_config EXCEPT
                          !.strategies = Remove(@, index),
                          !.updated_at = now]
                /\ UNCHANGED <<agent_stats, trade_action, recorded>>
                /\ tx' = Tx("remove_strategy", signer, "agent_config", arg, "Ok",
                            <<>>, <<"StrategyRemoved">>, NoAccount)

RemoveStrategy(Ids) ==
    \E signer \in AgentSigners, id \in Ids :
        /\ remove_strategy(signer, id)
        /\ NotOfAgent
        /\ UNCHANGED clockVars

\* allocations.iter().map(|a| a.target_percentage).sum() on u16: a build with
\* overflow checks panics where the sum does not fit, a build without them
\* keeps the low 16 bits.  <<>> is the panic.
RECURSIVE SumU16(_, _, _)
SumU16(allocations, i, overflow_checks) ==
    IF i = 0 THEN <<0>>
    ELSE LET before == SumU16(allocations, i - 1, overflow_checks)
         IN  IF before = <<>> THEN <<>>
             ELSE LET total == before[1] + allocations[i].target_percentage
                  IN  IF total <= U16_MAX THEN <<total>>
                      ELSE IF overflow_checks THEN <<>>
                      ELSE <<total % (U16_MAX + 1)>>

\* The first error of the loop over the allocations, "Ok" where there is none.
RECURSIVE AllocationError(_, _)
AllocationError(allocations, i) ==
    IF i > Len(allocations) THEN "Ok"
    ELSE IF ~is_valid_token_mint(allocations[i].mint) THEN "InvalidTokenMint"
    ELSE IF ~(allocations[i].target_percentage > 0) THEN "InvalidAllocation"
    ELSE IF ~(allocations[i].max_deviation_bps <= 2000) THEN "DeviationTooHigh"
    ELSE AllocationError(allocations, i + 1)

Allocation(mint, target_percentage, max_deviation_bps) ==
    [mint |-> mint, target_percentage |-> target_percentage,
     max_deviation_bps |-> max_deviation_bps]

AllocationInputs ==
    {<<>>,
     [i \in 1..(MAX_ALLOCATIONS + 1) |-> Allocation("usdc", 500, 100)],
     [i \in 1..MAX_ALLOCATIONS |-> Allocation("usdc", 500, 100)],
     <<Allocation("usdc", 10000, 500)>>,
     <<Allocation("usdc", 6000, 2000), Allocation("sol", 4000, 0)>>,
     <<Allocation("usdc", 6000, 500), Allocation("sol", 3000, 500)>>,
     <<Allocation("usdc", 10000, 2001)>>,
     <<Allocation("usdc", 10000, 0), Allocation("sol", 0, 0)>>,
     <<Allocation("no_mint", 10000, 0)>>,
     <<Allocation("usdc", 30000, 0), Allocation("sol", 30000, 0),
       Allocation("usdc", 15536, 0)>>}

set_target_allocations(signer, allocations, overflow_checks) ==
    LET arg == [allocations |-> allocations]
        accounts == UpdateAgentConfigAccounts(signer)
        total == SumU16(allocations, Len(allocations), overflow_checks)
        fail(error) == AgentRejected("set_target_allocations", signer, arg, error)
    IN  /\ agent_config # NoAccount
        /\ IF accounts # "Ok" THEN fail(accounts)
           ELSE IF Len(allocations) = 0 THEN fail("EmptyAllocations")
           ELSE IF ~(Len(allocations) <= MAX_ALLOCATIONS)
           THEN fail("TooManyAllocations")
           ELSE IF total = <<>> THEN fail("Panic")
           ELSE IF total[1] # 10000 THEN fail("AllocationsMustSumTo100")
           ELSE IF AllocationError(allocations, 1) # "Ok"
           THEN fail(AllocationError(allocations, 1))
           ELSE /\ agent_config' =
                      [agent_config EXCEPT !.target_allocations = allocations,
                                           !.updated_at = now]
                /\ UNCHANGED <<agent_stats, trade_action, recorded>>
                /\ tx' = Tx("set_target_allocations", signer, "agent_config",
                            arg, "Ok", <<>>, <<"AllocationsUpdated">>, NoAccount)

SetTargetAllocations ==
    \E signer \in AgentSigners, allocations \in AllocationInputs,
       overflow_checks \in BOOLEAN :
        /\ set_target_allocations(signer, allocations, overflow_checks)
        /\ NotOfAgent
        /\ UNCHANGED clockVars

\* activate_agent, deactivate_agent and pause_agent: the status each writes.
StatusOf(ix) ==
    CASE ix = "activate_agent" -> "Active"
      [] ix = "deactivate_agent" -> "Inactive"
      [] ix = "pause_agent" -> "Paused"

update_agent_status(ix, signer) ==
    LET accounts == UpdateAgentConfigAccounts(signer)
    IN  /\ agent_config # NoAccount
        /\ IF accounts # "Ok" THEN AgentRejected(ix, signer, NoArgs, accounts)
           ELSE /\ agent_config' = [agent_config EXCEPT !.status = StatusOf(ix),
                                                        !.updated_at = now]
                /\ UNCHANGED <<agent_stats, trade_action, recorded>>
                /\ tx' = Tx(ix, signer, "agent_config", NoArgs, "Ok", <<>>,
                            <<"AgentStatusChanged">>, NoAccount)

ActivateAgent ==
    \E signer \in AgentSigners :
        /\ update_agent_status("activate_agent", signer)
        /\ NotOfAgent
        /\ UNCHANGED clockVars

DeactivateAgent ==
    \E signer \in AgentSigners :
        /\ update_agent_status("deactivate_agent", signer)
        /\ NotOfAgent
        /\ UNCHANGED clockVars

PauseAgent ==
    \E signer \in AgentSigners :
        /\ update_agent_status("pause_agent", signer)
        /\ NotOfAgent
        /\ UNCHANGED clockVars

\* A seeded fault: a paused agent admitted.
AgentActiveOrPaused(status) == status \in {"Active", "Paused"}

\* constraint = agent_config.status == AgentStatus::Active
AgentActive(status) == status = "Active"

\* The seeds of the trade_action account: the strategy and the clock.
TradeActionSeeds(strategy_id) == <<strategy_id, now>>

record_trade(signer, strategy_id, input_mint, output_mint, input_amount, success, reason, overflow_checks) ==
    LET arg == [strategy_id |-> strategy_id, input_mint |-> input_mint,
                output_mint |-> output_mint, input_amount |-> input_amount,
                success |-> success, reason |-> reason]
        index == Position(agent_config.strategies, strategy_id)
        total_volume == UncheckedAdd(agent_stats.total_volume, input_amount,
                                     overflow_checks)
        total_trade_volume == UncheckedAdd(agent_config.total_trade_volume,
                                           input_amount, overflow_checks)
        fail(error) == AgentRejected("record_trade", signer, arg, error)
    IN  /\ agent_config # NoAccount
        /\ IF TradeActionSeeds(strategy_id) \in trade_action
           THEN fail("AccountAlreadyInUse")
           ELSE IF ~AgentActive(agent_config.status) THEN fail("AgentNotActive")
           ELSE IF ~is_valid_token_mint(input_mint) THEN fail("InvalidTokenMint")
           ELSE IF ~is_valid_token_mint(output_mint) THEN fail("InvalidTokenMint")
           ELSE IF ~(input_amount > 0) THEN fail("InvalidAmount")
           ELSE IF ~(Len(reason) <= 200) THEN fail("ReasonTooLong")
           ELSE IF index = 0 THEN fail("StrategyNotFound")
           ELSE IF success /\ (total_volume = <<>> \/ total_trade_volume = <<>>)
           THEN fail("Panic")
           ELSE /\ trade_action' = trade_action \cup {TradeActionSeeds(strategy_id)}
                /\ agent_stats' =
                      [agent_stats EXCEPT
                          !.total_trades = @ + 1,
                          !.successful_trades = IF success THEN @ + 1 ELSE @,
                          !.failed_trades = IF success THEN @ ELSE @ + 1,
                          !.total_volume =
                              IF success THEN total_volume[1] ELSE @,
                          !.last_updated_at = now]
                /\ agent_config' =
                      IF success
                      THEN [agent_config EXCEPT
                               !.total_trade_volume = total_trade_volume[1],
                               !.total_executed_trades = @ + 1,
                               !.strategies[index].last_executed_at = now,
                               !.strategies[index].execution_count = @ + 1]
                      ELSE agent_config
                /\ UNCHANGED recorded
                /\ tx' = Tx("record_trade", signer, "agent_config", arg, "Ok",
                            <<>>, <<"TradeExecuted">>, NoAccount)

RecordTrade(Ids) ==
    \E signer \in AgentSigners, id \in Ids, in \in TradeInputs,
       success \in BOOLEAN, overflow_checks \in BOOLEAN :
        /\ Cardinality(trade_action) < MaxAgentTrades
        /\ record_trade(signer, id, in[1], "sol", in[2], success, in[3],
                        overflow_checks)
        /\ NotOfAgent
        /\ UNCHANGED clockVars

PortfolioValueInputs == {1000}

DailyProfitLossInputs == {-5, 7}

\* A seeded fault: the newest point dropped, not the oldest.
KeepFirst(pushed) ==
    IF Len(pushed) > MAX_PERFORMANCE_POINTS
    THEN Remove(pushed, Len(pushed)) ELSE pushed

\* if performance_data.len() > 30 { performance_data.remove(0); }
KeepLast(pushed) ==
    IF Len(pushed) > MAX_PERFORMANCE_POINTS THEN Remove(pushed, 1) ELSE pushed

record_performance(signer, portfolio_value, daily_profit_loss) ==
    LET arg == [portfolio_value |-> portfolio_value,
                daily_profit_loss |-> daily_profit_loss]
        data_point == [timestamp |-> now, portfolio_value |-> portfolio_value,
                       daily_profit_loss |-> daily_profit_loss]
        pushed == Append(agent_stats.performance_data, data_point)
    IN  /\ agent_config # NoAccount
        /\ IF ~AgentActive(agent_config.status)
           THEN AgentRejected("record_performance", signer, arg, "AgentNotActive")
           ELSE /\ agent_stats' =
                      [agent_stats EXCEPT
                          !.performance_data = KeepLast(pushed),
                          !.profit_loss = @ + daily_profit_loss,
                          !.last_updated_at = now]
                /\ recorded' = Append(recorded, daily_profit_loss)
                /\ UNCHANGED <<agent_config, trade_action>>
                /\ tx' = Tx("record_performance", signer, "agent_config", arg,
                            "Ok", <<>>, <<"PerformanceRecorded">>, NoAccount)

RecordPerformance ==
    \E signer \in AgentSigners, portfolio_value \in PortfolioValueInputs,
       daily_profit_loss \in DailyProfitLossInputs :
        /\ Len(recorded) < MAX_PERFORMANCE_POINTS + MaxEvictions
        /\ record_performance(signer, portfolio_value, daily_profit_loss)
        /\ NotOfAgent
        /\ UNCHANGED clockVars

(***************************************************************************)
(* price_alerts.rs: the price alerts of one user, AlertUser.               *)
(***************************************************************************)
AlertUser == "alice"

\* The price feed's key, and a key that is not the price feed's.
Oracle == "oracle"

AlertSigners == {Oracle, "mallory"}

\* UserPriceAlerts::MAX_ALERTS
MAX_ALERTS == 10

TokenInputs == {"sol", "usdc"}

ThresholdPriceInputs == {100}

CurrentPriceInputs == {99, 100, 101}

\* An instruction of price_alerts.rs that failed.
AlertRejected(ix, signer, arg, error) ==
    /\ tx' = Tx(ix, signer, "price_alerts", arg, error, <<>>, <<>>, NoAccount)
    /\ UNCHANGED alertVars

\* The accounts price_alerts.rs does not touch.
NotOfAlerts ==
    UNCHANGED <<ledgerVars, opened, defiVars, tradeVars, outcomes, agentVars,
                clockVars>>

initialize_price_alerts(user) ==
    /\ user = AlertUser
    /\ IF price_alerts # NoAccount
       THEN AlertRejected("initialize_price_alerts", user, NoArgs,
                          "AccountAlreadyInUse")
       ELSE /\ price_alerts' = [initialized |-> TRUE, user |-> user,
                                alerts |-> <<>>, alert_count |-> 0,
                                max_alerts |-> MAX_ALERTS]
            /\ tx' = Tx("initialize_price_alerts", user, "price_alerts", NoArgs,
                        "Ok", <<>>, <<"Price Alerts Initialized">>, NoAccount)

InitializePriceAlerts == initialize_price_alerts(AlertUser) /\ NotOfAlerts

\* seeds = [b"price_alerts", user.key().as_ref()] with the user the signer.
PriceAlertsSeeds(user) == user = AlertUser

create_price_alert(user, token, threshold, direction) ==
    LET arg == [token |-> token, threshold |-> threshold,
                direction |-> direction]
        fail(error) == AlertRejected("create_price_alert", user, arg, error)
    IN  /\ price_alerts # NoAccount
        /\ IF ~PriceAlertsSeeds(user) THEN fail("ConstraintSeeds")
           ELSE IF price_alerts.user # user THEN fail("ConstraintRaw")
           ELSE IF ~(Len(price_alerts.alerts) < price_alerts.max_alerts)
           THEN fail("MaxAlertsExceeded")
           ELSE /\ price_alerts' =
                      [price_alerts EXCEPT
                          !.alerts =
                              Append(@, [id |-> price_alerts.alert_count + 1,
                                         token |-> token,
                                         threshold |-> threshold,
                                         direction |-> direction,
                                         created_at |-> now,
                                         triggered |-> FALSE]),
                          !.alert_count = @ + 1]
                /\ tx' = Tx("create_price_alert", user, "price_alerts", arg,
                            "Ok", <<>>, <<"Price Alert Created">>, NoAccount)

CreatePriceAlert ==
    \E user \in {AlertUser, "mallory"}, token \in TokenInputs,
       threshold \in ThresholdPriceInputs, direction \in BOOLEAN :
        /\ price_alerts # NoAccount
        /\ price_alerts.alert_count < MaxAlertsCreated
        /\ create_price_alert(user, token, threshold, direction)
        /\ NotOfAlerts

delete_price_alert(user, alert_id) ==
    LET arg == [alert_id |-> alert_id]
        index == Position(price_alerts.alerts, alert_id)
        fail(error) == AlertRejected("delete_price_alert", user, arg, error)
    IN  /\ price_alerts # NoAccount
        /\ IF ~PriceAlertsSeeds(user) THEN fail("ConstraintSeeds")
           ELSE IF price_alerts.user # user THEN fail("ConstraintRaw")
           ELSE IF index = 0 THEN fail("AlertNotFound")
           ELSE /\ price_alerts' =
                      [price_alerts EXCEPT !.alerts = Remove(@, index)]
                /\ tx' = Tx("delete_price_alert", user, "price_alerts", arg,
                            "Ok", <<>>, <<"Price Alert Deleted">>, NoAccount)

DeletePriceAlert ==
    \E user \in {AlertUser, "mallory"}, alert_id \in 1..(MaxAlertsCreated + 1) :
        /\ delete_price_alert(user, alert_id)
        /\ NotOfAlerts

\* current_price >= alert.threshold above, current_price <= alert.threshold
\* below
should_trigger(alert, current_price) ==
    IF alert.direction THEN current_price >= alert.threshold
    ELSE current_price <= alert.threshold

\* A seeded fault: an alert that has fired fires again.
FiresAgain(alert, token, current_price) ==
    alert.token = token /\ should_trigger(alert, current_price)

\* if alert.token == token && !alert.triggered { .. should_trigger .. }
Fires(alert, token, current_price) ==
    /\ alert.token = token
    /\ ~alert.triggered
    /\ should_trigger(alert, current_price)

\* The PriceAlertEvent of emit_price_alert.
PriceAlertEvent(user, alert, token, current_price) ==
    [user |-> user, token_address |-> token,
     alert_direction |-> alert.direction, threshold |-> alert.threshold,
     current_price |-> current_price, timestamp |-> now]

RECURSIVE PriceAlertEvents(_, _, _, _)
\* The events of the loop over the alerts, from the i-th on.
PriceAlertEvents(alerts, i, token, current_price) ==
    IF i > Len(alerts) THEN <<>>
    ELSE (IF Fires(alerts[i], token, current_price)
          THEN <<PriceAlertEvent(AlertUser, alerts[i], token, current_price)>>
          ELSE <<>>)
         \o PriceAlertEvents(alerts, i + 1, token, current_price)

trigger_price_alert(signer, token, current_price, oracle_authority) ==
    LET arg == [token |-> token, current_price |-> current_price,
                oracle_authority |-> oracle_authority]
    IN  /\ price_alerts # NoAccount
        /\ IF ~(signer = oracle_authority)
           THEN AlertRejected("trigger_price_alert", signer, arg, "Unauthorized")
           ELSE /\ price_alerts' =
                      [price_alerts EXCEPT
                          !.alerts =
                              [i \in DOMAIN @ |->
                                  IF Fires(@[i], token, current_price)
                                  THEN [@[i] EXCEPT !.triggered = TRUE]
                                  ELSE @[i]]]
                /\ tx' = Tx("trigger_price_alert", signer, "price_alerts", arg,
                            "Ok", <<>>,
                            PriceAlertEvents(price_alerts.alerts, 1, token,
                                             current_price),
                            NoAccount)

TriggerPriceAlert ==
    \E signer \in AlertSigners, token \in TokenInputs,
       current_price \in CurrentPriceInputs, oracle_authority \in AlertSigners :
        /\ trigger_price_alert(signer, token, current_price, oracle_authority)
        /\ NotOfAlerts

(***************************************************************************)
(* Initial states.                                                         *)
(***************************************************************************)
ClockInit ==
    /\ now = 0
    /\ ticks = 0
    /\ tx = NoTx

\* The registry is initialized and one strategy created, nobody subscribed.
LedgerInit ==
    /\ \E fee \in ProtocolFeeInputs :
          /\ fee <= 1000
          /\ registry = initialize_registry(Admin, fee, Admin)
    /\ \E m \in ManagementFeeInputs, p \in PerformanceFeeInputs,
          min \in MinInvestmentInputs :
          /\ ValidStrategyParams(2, 1, 0, m, p)
          /\ strategy = NewStrategy(Creator, 2, 1, 0, m, p, min)
    /\ subscription = [s \in Subscribers |-> NoAccount]
    /\ opened = 0

LedgerIdle ==
    /\ registry = NoAccount
    /\ strategy = NoAccount
    /\ subscription = [s \in Subscribers |-> NoAccount]
    /\ opened = 0

DefiIdle ==
    /\ defi_strategy = NoAccount
    /\ position = NoAccount

TradeIdle ==
    /\ trading_state = NoAccount
    /\ trade_record = <<>>
    /\ outcomes = 0

AgentIdle ==
    /\ agent_config = NoAccount
    /\ agent_stats = NoAccount
    /\ trade_action = {}
    /\ recorded = <<>>

AlertIdle == price_alerts = NoAccount

Init ==
    ClockInit /\ LedgerInit /\ DefiIdle /\ TradeIdle /\ AgentIdle /\ AlertIdle

(***************************************************************************)
(* Specifications of the strategy ledger.                                  *)
(***************************************************************************)
\* Every instruction on the strategy's subscriptions, one subscriber acting.
Next ==
    \/ SubscribeToStrategy({"alice"})
    \/ UnsubscribeFromStrategy({"alice"})
    \/ UpdateStrategyValue({"alice"})
    \/ CollectManagementFees({"alice"})
    \/ CollectPerformanceFees({"alice"})
    \/ Tick(ClockSteps)

Spec == Init /\ [][Next]_vars

\* Subscriptions come and go as time passes, nothing else happens to them.
NextSubscribe ==
    \/ SubscribeToStrategy(Subscribers)
    \/ UnsubscribeFromStrategy(Subscribers)
    \/ Tick(ClockSteps)

SpecSubscribe == Init /\ [][NextSubscribe]_vars

\* A subscription and the management fee sweep, as time passes.
NextManagementFee ==
    \/ SubscribeToStrategy({"alice"})
    \/ CollectManagementFees({"alice"})
    \/ Tick(ClockSteps)

SpecManagementFee == Init /\ [][NextManagementFee]_vars

\* Value updates on the subscriptions of two subscribers.
NextUpdate ==
    \/ SubscribeToStrategy(Subscribers)
    \/ UpdateStrategyValue(Subscribers)

SpecUpdate == Init /\ [][NextUpdate]_vars

\* The strategy's creator changing it while a subscriber comes.
NextLifecycle ==
    \/ UpdateStrategy
    \/ SubscribeToStrategy({"alice"})
    \/ Tick({86400})

SpecLifecycle == Init /\ [][NextLifecycle]_vars

\* The value update and the fee sweeps called by anybody on the subscription
\* of one subscriber.
NextAuthority ==
    \/ SubscribeToStrategy({"alice"})
    \/ UpdateStrategyValueBy(ValueSigners, {"alice"})
    \/ CollectManagementFeesBy(ValueSigners, {"alice"})
    \/ CollectPerformanceFeesBy(ValueSigners, {"alice"})
    \/ Tick({86400})

SpecAuthority == Init /\ [][NextAuthority]_vars

\* The registry and the strategy, from nothing: creation, the creator's and
\* the authority's instructions, and a subscriber coming and going.
InitGovernance ==
    ClockInit /\ LedgerIdle /\ DefiIdle /\ TradeIdle /\ AgentIdle /\ AlertIdle

NextGovernance ==
    \/ InitializeRegistry
    \/ CreateStrategy
    \/ UpdateStrategyFees
    \/ TransferStrategyOwnership
    \/ VerifyStrategy
    \/ UpdateProtocolFees
    \/ SubscribeToStrategy({"alice"})
    \/ UnsubscribeFromStrategy({"alice"})

SpecGovernance == InitGovernance /\ [][NextGovernance]_vars

(***************************************************************************)
(* The handlers as functions of the account data they are given: the       *)
(* strategy's totals and fee rate and alice's subscription are drawn from   *)
(* bounded sets, also where no run of the program from LedgerInit leads     *)
(* (a current_value above the mark, a tvl below a subscription's value).    *)
(***************************************************************************)
CurrentValueInputs == {0, 1000, 1250}

HighWaterMarkInputs == {0, 1000}

TvlInputs == {500, 2000}

SubscriberCountInputs == {0, 1}

FeeRateInputs == {0, 24, 3000}

InitFee ==
    /\ ClockInit
    /\ registry = initialize_registry(Admin, 50, Admin)
    /\ \E p \in FeeRateInputs, t \in TvlInputs, c \in SubscriberCountInputs :
          /\ ValidStrategyParams(2, 1, 0, 500, p)
          /\ strategy = [NewStrategy(Creator, 2, 1, 0, 500, p, 500)
                            EXCEPT !.tvl = t, !.subscriber_count = c]
    /\ \E v \in CurrentValueInputs, h \in HighWaterMarkInputs :
          subscription =
              [s \in Subscribers |->
                  IF s = "alice"
                  THEN [NewSubscription(s, 1000) EXCEPT !.current_value = v,
                                                        !.high_water_mark = h]
                  ELSE NoAccount]
    /\ opened = 1
    /\ DefiIdle
    /\ TradeIdle
    /\ AgentIdle
    /\ AlertIdle

\* As InitFee, with a second subscription, of bob.
InitValue ==
    /\ ClockInit
    /\ registry = initialize_registry(Admin, 50, Admin)
    /\ \E t \in TvlInputs :
          strategy = [NewStrategy(Creator, 2, 1, 0, 500, 2000, 500)
                         EXCEPT !.tvl = t, !.subscriber_count = 2]
    /\ \E v \in CurrentValueInputs, h \in HighWaterMarkInputs :
          subscription =
              [s \in Subscribers |->
                  IF s = "alice"
                  THEN [NewSubscription(s, 1000) EXCEPT !.current_value = v,
                                                        !.high_water_mark = h]
                  ELSE NewSubscription(s, 1000)]
    /\ opened = 2
    /\ DefiIdle
    /\ TradeIdle
    /\ AgentIdle
    /\ AlertIdle

NextValue == UpdateStrategyValue(Subscribers)

SpecValue == InitValue /\ [][NextValue]_vars

NextFee ==
    \/ UpdateStrategyValue({"alice"})
    \/ CollectPerformanceFees({"alice"})
    \/ UnsubscribeFromStrategy({"alice"})

SpecFee == InitFee /\ [][NextFee]_vars

(***************************************************************************)
(* Specification of the native DeFi program.  The position account holds   *)
(* a UserPosition drawn from bounded sets.                                  *)
(***************************************************************************)
InitDefi ==
    /\ ClockInit
    /\ LedgerIdle
    /\ defi_strategy = NoAccount
    /\ \E o \in Subscribers, k \in {DefiStrategyKey, "other_strategy"},
          t \in SubscriptionTimeInputs :
          position = [version |-> 1, owner |-> o, strategy |-> k,
                      initial_investment |-> 1000, current_value |-> 1000,
                      subscription_time |-> t, last_harvest_time |-> t,
                      performance_fee_rate |-> 30]
    /\ TradeIdle
    /\ AgentIdle
    /\ AlertIdle

NextDefi ==
    \/ ProcessCreateStrategy
    \/ ProcessSubscribeToStrategy
    \/ ProcessUnsubscribeFromStrategy
    \/ Tick(ClockSteps)

SpecDefi == InitDefi /\ [][NextDefi]_vars

(***************************************************************************)
(* Specification of the trading program.                                   *)
(***************************************************************************)
InitTrade ==
    ClockInit /\ LedgerIdle /\ DefiIdle /\ TradeIdle /\ AgentIdle /\ AlertIdle

NextTrade ==
    \/ Initialize
    \/ ExecuteTrade
    \/ UpdateParameters
    \/ UpdateTradeOutcome
    \/ Tick(TradeClockSteps)

SpecTrade == InitTrade /\ [][NextTrade]_vars

\* Trading without the reconciliation of outcomes.
NextOracle ==
    \/ Initialize
    \/ ExecuteTrade
    \/ UpdateParameters
    \/ Tick(TradeClockSteps)

SpecOracle == InitTrade /\ [][NextOracle]_vars

\* Trades at every risk level and confidence.
NextConfidence ==
    \/ InitializeTier
    \/ ExecuteTradeThreshold
    \/ UpdateParameters

SpecConfidence == InitTrade /\ [][NextConfidence]_vars

(***************************************************************************)
(* Specifications of the agent program.                                    *)
(***************************************************************************)
OnlyAgent == ClockInit /\ LedgerIdle /\ DefiIdle /\ TradeIdle /\ AlertIdle

InitAgent == OnlyAgent /\ AgentIdle

\* An agent with up to two strategies, trading as its owner starts and stops
\* it.
NextAgent ==
    \/ InitializeAgent
    \/ ActivateAgent
    \/ DeactivateAgent
    \/ PauseAgent
    \/ AddStrategy({1, 2})
    \/ RecordTrade({1, 2, 10})

SpecAgent == InitAgent /\ [][NextAgent]_vars

\* The owner sets the target allocations of the agent.
NextAllocations ==
    \/ InitializeAgent
    \/ ActivateAgent
    \/ PauseAgent
    \/ SetTargetAllocations

SpecAllocations == InitAgent /\ [][NextAllocations]_vars

\* The agent after initialize_agent and activate_agent at time 0.
ActiveAgent(strategies) ==
    [initialized |-> TRUE, owner |-> AgentOwner, name |-> Bytes(3),
     risk_profile |-> "Moderate", status |-> "Active", updated_at |-> 0,
     strategies |-> strategies, target_allocations |-> <<>>,
     total_executed_trades |-> 0, total_trade_volume |-> 0]

\* The statistics of the agent after the given performance points.
StatsAfter(performance_data) ==
    [initialized |-> TRUE, owner |-> AgentOwner, total_trades |-> 0,
     successful_trades |-> 0, failed_trades |-> 0, total_volume |-> 0,
     profit_loss |-> (Len(performance_data) * (Len(performance_data) + 1)) \div 2,
     last_updated_at |-> 0, performance_data |-> performance_data]

\* The agent holds nine strategies, added one after the other.
InitStrategies ==
    /\ OnlyAgent
    /\ agent_config =
           ActiveAgent([i \in 1..(MAX_STRATEGIES - 1) |->
                           [id |-> i, name |-> Bytes(3),
                            strategy_type |-> "Custom", is_active |-> TRUE,
                            parameters |-> Bytes(2), last_executed_at |-> 0,
                            execution_count |-> 0]])
    /\ agent_stats = StatsAfter(<<>>)
    /\ trade_action = {}
    /\ recorded = <<>>

NextStrategies ==
    \/ AddStrategy(StrategyIdInputs)
    \/ RemoveStrategy(StrategyIdInputs \cup {12})
    \/ RecordTrade({1})

SpecStrategies == InitStrategies /\ [][NextStrategies]_vars

\* The agent has recorded 29 performance points, one profit after the other:
\* the i-th of i.
InitPerformance ==
    /\ OnlyAgent
    /\ agent_config = ActiveAgent(<<>>)
    /\ recorded = [i \in 1..(MAX_PERFORMANCE_POINTS - 1) |-> i]
    /\ agent_stats =
           StatsAfter([i \in 1..(MAX_PERFORMANCE_POINTS - 1) |->
                          [timestamp |-> 0, portfolio_value |-> 1000,
                           daily_profit_loss |-> i]])
    /\ trade_action = {}

NextPerformance ==
    \/ RecordPerformance
    \/ PauseAgent
    \/ ActivateAgent
    \/ Tick({86400})

SpecPerformance == InitPerformance /\ [][NextPerformance]_vars

(***************************************************************************)
(* Specification of the price alerts.                                      *)
(***************************************************************************)
InitAlerts ==
    ClockInit /\ LedgerIdle /\ DefiIdle /\ TradeIdle /\ AgentIdle /\ AlertIdle

NextAlerts ==
    \/ InitializePriceAlerts
    \/ CreatePriceAlert
    \/ DeletePriceAlert
    \/ TriggerPriceAlert

SpecAlerts == InitAlerts /\ [][NextAlerts]_vars

(***************************************************************************)
(* Properties.                                                             *)
(***************************************************************************)
\* The step is a transaction of instruction ix.
IsStep(ix) == tx' # tx /\ tx'.ix = ix

\* The step is a transaction of instruction ix that succeeded.
IsOkStep(ix) == IsStep(ix) /\ tx'.result = "Ok"

RECURSIVE SumLive(_)
\* The sum of current_value over the live subscriptions of the subscribers S.
SumLive(S) ==
    IF S = {} THEN 0
    ELSE LET s == CHOOSE x \in S : TRUE
         IN  (IF subscription[s] = NoAccount THEN 0
              ELSE subscription[s].current_value) + SumLive(S \ {s})

\* C1: after any sequence of subscribe and unsubscribe operations, accepted
\* or rejected, strategy.tvl equals the sum of current_value over the
\* strategy's live subscriptions.
C1_TvlIsSumOfLive == strategy.tvl = SumLive(Subscribers)

C3_FeeOnRaisedValue ==
    [][(/\ tx.ix = "update_strategy_value" /\ tx.result = "Ok"
        /\ tx.arg.new_value > tx.pre.current_value
        /\ tx.arg.new_value > tx.pre.high_water_mark
        /\ IsOkStep("collect_performance_fees")
        /\ tx'.account = tx.account)
       => LET new == tx.arg.new_value
              fee == ((new - tx.pre.high_water_mark)
                         * strategy.performance_fee_bps) \div 10000
              sub == subscription'[tx'.account]
          IN  /\ sub.current_value = new - fee
              /\ sub.high_water_mark = new - fee]_vars

\* What C4 says of every collect_management_fee: it never increases
\* current_value, and it changes nothing of the subscription when fewer than
\* 86400 seconds have elapsed since last_fee_collection.
ManagementFeeStep ==
    IsOkStep("collect_management_fees") =>
        LET a == tx'.account
        IN  /\ subscription'[a].current_value <= subscription[a].current_value
            /\ now - subscription[a].last_fee_collection < 86400
                  => subscription'[a] = subscription[a]

\* C4, as stated: collect_management_fee never increases current_value, is a
\* no-op when fewer than 86400 seconds have elapsed since
\* last_fee_collection, and of two calls less than a day apart the second
\* changes nothing.
C4_SecondCallSameDay ==
    [][/\ ManagementFeeStep
       /\ (/\ tx.ix = "collect_management_fees" /\ tx.result = "Ok"
           /\ IsOkStep("collect_management_fees")
           /\ tx'.account = tx.account
           /\ now - tx.at < 86400)
          => subscription' = subscription]_vars

\* C4, amended: collect_management_fee never increases current_value, is a
\* no-op when fewer than 86400 seconds have elapsed since
\* last_fee_collection, and a call less than a day after a call that
\* collected changes nothing.
C4_ManagementFeeWindow ==
    [][/\ ManagementFeeStep
       /\ (/\ tx.ix = "collect_management_fees" /\ tx.result = "Ok"
           /\ tx.at - tx.pre.last_fee_collection >= 86400
           /\ IsOkStep("collect_management_fees")
           /\ tx'.account = tx.account
           /\ now - tx.at < 86400)
          => subscription' = subscription]_vars

\* A collect_management_fee less than a day after one that collected has run
\* and changed nothing.
C4_Witness ==
    /\ tx.ix = "collect_management_fees" /\ tx.result = "Ok"
    /\ tx.pre.last_fee_collection >= tx.pre.subscribed_at + 86400
    /\ tx.at > tx.pre.last_fee_collection
    /\ tx.at - tx.pre.last_fee_collection < 86400
    /\ subscription[tx.account] = tx.pre

\* C5: collect_performance_fee never increases current_value, changes
\* neither current_value nor high_water_mark when current_value <=
\* high_water_mark, and called twice in succession the second call changes
\* nothing.
C5_PerformanceFeeIdempotent ==
    [][IsOkStep("collect_performance_fees") =>
          LET a == tx'.account
          IN  /\ subscription'[a].current_value <= subscription[a].current_value
              /\ subscription[a].current_value <= subscription[a].high_water_mark
                    => /\ subscription'[a].current_value
                              = subscription[a].current_value
                       /\ subscription'[a].high_water_mark
                              = subscription[a].high_water_mark
              /\ (/\ tx.ix = "collect_performance_fees" /\ tx.result = "Ok"
                  /\ tx.account = a)
                    => subscription' = subscription]_vars

\* A second collect_performance_fee has run on the subscription a first one
\* left at 1175 (a fee of 75 on the 250 above the mark, at 3000 bps).
C5_Witness ==
    /\ tx.ix = "collect_performance_fees" /\ tx.result = "Ok"
    /\ strategy.performance_fee_bps = 3000
    /\ tx.pre.current_value = 1175 /\ tx.pre.high_water_mark = 1175
    /\ subscription[tx.account] = tx.pre

\* C6: high_water_mark never decreases: after any update_value and any
\* collect_performance_fee it is at least what it was, for every
\* performance_fee_bps within the cap.
C6_HighWaterMarkMonotone ==
    [][(IsOkStep("update_strategy_value") \/ IsOkStep("collect_performance_fees"))
          => subscription'[tx'.account].high_water_mark
                >= subscription[tx'.account].high_water_mark]_vars

\* A fee sweep at the capped rate of 3000 bps has raised the mark.
C6_Witness ==
    /\ tx.ix = "collect_performance_fees" /\ tx.result = "Ok"
    /\ strategy.performance_fee_bps = 3000
    /\ tx.pre.current_value > tx.pre.high_water_mark
    /\ subscription[tx.account].high_water_mark > tx.pre.high_water_mark
    /\ subscription[tx.account].current_value < tx.pre.current_value

C10_StaleQuoteRejected ==
    [][IsStep("execute_trade") =>
          LET age == now - tx'.arg.price_update.publish_time
          IN  /\ tx'.result = "Ok" => age <= 30
              /\ age > 30 => /\ tx'.result # "Ok"
                             /\ UNCHANGED tradeVars
              /\ (~trading_state.paused /\ tx'.signer = trading_state.authority)
                    => (tx'.result = "PriceTooOld" <=> age > 30)]_vars

\* A quote 31 seconds old was rejected, after one trade had been executed.
C10_Witness ==
    /\ tx.ix = "execute_trade" /\ tx.result = "PriceTooOld"
    /\ tx.at - tx.arg.price_update.publish_time = 31
    /\ trading_state.total_trades = 1
    /\ Len(trade_record) = 1

\* C11: the confidence a trade needs depends on the risk level only: 80 at
\* levels 1-3, 65 at levels 4-7, 50 at levels 8 and above; a trade that
\* gets as far as the confidence check is rejected with
\* InsufficientConfidence exactly when its confidence is strictly below
\* that (equal to it is accepted), and no trade is rejected so otherwise.
C11_ConfidenceThreshold ==
    [][(IsStep("execute_trade") /\ trading_state.risk_level >= 1) =>
          LET r       == trading_state.risk_level
              need    == IF r <= 3 THEN 80 ELSE IF r <= 7 THEN 65 ELSE 50
              reached == /\ ~trading_state.paused
                         /\ tx'.signer = trading_state.authority
                         /\ now - tx'.arg.price_update.publish_time <= 30
          IN  (tx'.result = "InsufficientConfidence")
                 <=> (reached /\ tx'.arg.confidence < need)]_vars

\* At risk level 2 a trade offered at confidence 70 was rejected.
C11_Witness ==
    /\ tx.ix = "execute_trade" /\ tx.result = "InsufficientConfidence"
    /\ trading_state.risk_level = 2
    /\ tx.arg.confidence = 70

\* C12: execute_trade reports the error of the first failing check in the
\* order paused, caller authority, oracle, confidence, position size: a
\* non-authority caller while paused gets TradingPaused, and the authority
\* with low confidence and an amount above max_position_size gets
\* InsufficientConfidence.
C12_CheckOrder ==
    [][IsStep("execute_trade") =>
          LET paused == trading_state.paused
              other  == tx'.signer # trading_state.authority
              stale  == now - tx'.arg.price_update.publish_time > 30
              low    == tx'.arg.confidence
                           < min_confidence(trading_state.risk_level)
              large  == tx'.arg.amount > trading_state.max_position_size
          IN  /\ paused => tx'.result = "TradingPaused"
              /\ (~paused /\ other) => tx'.result = "Unauthorized"
              /\ (~paused /\ ~other /\ stale) => tx'.result = "PriceTooOld"
              /\ (~paused /\ ~other /\ ~stale /\ low)
                    => tx'.result = "InsufficientConfidence"
              /\ (~paused /\ ~other /\ ~stale /\ ~low /\ large)
                    => tx'.result = "PositionTooLarge"]_vars

\* While paused, a caller who is not the authority was told TradingPaused.
C12_Witness ==
    /\ tx.ix = "execute_trade" /\ tx.result = "TradingPaused"
    /\ trading_state.paused
    /\ tx.signer # trading_state.authority
    /\ tx.arg.amount > trading_state.max_position_size

\* C13: while paused no execute_trade succeeds or changes the trading
\* state or the trade records; the paused flag changes only by a successful
\* update_parameters of the authority; update_parameters by anyone else
\* fails Unauthorized and changes nothing.
C13_PauseIsAuthorityGated ==
    [][trading_state # NoAccount =>
          /\ (IsStep("execute_trade") /\ trading_state.paused)
                => /\ tx'.result # "Ok"
                   /\ UNCHANGED tradeVars
          /\ trading_state'.paused # trading_state.paused
                => /\ IsOkStep("update_parameters")
                   /\ tx'.signer = trading_state.authority
          /\ (IsStep("update_parameters")
                 /\ tx'.signer # trading_state.authority)
                => /\ tx'.result = "Unauthorized"
                   /\ UNCHANGED tradeVars]_vars

\* Trading is paused and another caller's attempt to resume it was refused.
C13_Witness ==
    /\ tx.ix = "update_parameters" /\ tx.result = "Unauthorized"
    /\ tx.arg.paused = <<FALSE>>
    /\ trading_state.paused
    /\ trading_state.total_trades = 1

\* C14: update_trade_outcome applied a second time to the same trade record
\* with the same (successful, profit_loss) leaves successful_trades and
\* total_profit_loss as they were after the first.
C14_OutcomeIdempotent ==
    [][(/\ tx.ix = "update_trade_outcome" /\ tx.result = "Ok"
        /\ tx'.ix = "update_trade_outcome" /\ tx'.result = "Ok"
        /\ tx'.arg = tx.arg
        /\ outcomes' = outcomes + 1)
       => /\ trading_state'.successful_trades = trading_state.successful_trades
          /\ trading_state'.total_profit_loss
                = trading_state.total_profit_loss]_vars

C16_FeeLowersTvl ==
    [][(IsOkStep("collect_management_fees")
           \/ IsOkStep("collect_performance_fees"))
       => LET a == tx'.account
          IN  strategy'.tvl
                 = strategy.tvl - (subscription[a].current_value
                                      - subscription'[a].current_value)]_vars

\* A patch of update_strategy holds a field beyond its bound.
PatchOutOfBound(patch) ==
    \/ IsSome(patch.risk_level) /\ Unwrap(patch.risk_level) > 3
    \/ IsSome(patch.time_horizon) /\ Unwrap(patch.time_horizon) > 2
    \/ IsSome(patch.token_support) /\ Unwrap(patch.token_support) > 3
    \/ IsSome(patch.management_fee_bps) /\ Unwrap(patch.management_fee_bps) > 500
    \/ IsSome(patch.performance_fee_bps) /\ Unwrap(patch.performance_fee_bps) > 3000
    \/ IsSome(patch.status) /\ Unwrap(patch.status) > 2

C18_AllOrNothing ==
    [][(IsStep("subscribe_to_strategy") \/ IsStep("unsubscribe_from_strategy"))
       => LET a       == tx'.account
              created == subscription[a] = NoAccount /\ subscription'[a] # NoAccount
              closed  == subscription[a] # NoAccount /\ subscription'[a] = NoAccount
          IN  /\ tx'.result = "InsufficientFunds" => UNCHANGED ledgerVars
              /\ created =>
                    /\ strategy'.tvl = strategy.tvl + tx'.arg.investment_amount
                    /\ strategy'.subscriber_count = strategy.subscriber_count + 1
              /\ closed =>
                    /\ strategy'.tvl =
                          IF strategy.tvl >= subscription[a].current_value
                          THEN strategy.tvl - subscription[a].current_value
                          ELSE 0
                    /\ strategy'.subscriber_count =
                          IF strategy.subscriber_count >= 1
                          THEN strategy.subscriber_count - 1 ELSE 0
              /\ (~created /\ ~closed) => strategy' = strategy]_vars

\* C19: once a strategy's status is Deprecated (2) no operation changes it
\* and no subscribe to the strategy succeeds.
C19_DeprecatedIsTerminal ==
    [][strategy.status = 2 =>
          /\ strategy'.status = 2
          /\ ~IsOkStep("subscribe_to_strategy")]_vars

\* C20: subscribe on a strategy that is not Active fails, whatever the
\* amount, creating no subscription and leaving tvl and subscriber_count
\* as they were; the error is StrategyNotActive whenever the subscriber
\* holds no subscription yet.
C20_NotActiveRejected ==
    [][(IsStep("subscribe_to_strategy") /\ strategy.status # 0) =>
          /\ tx'.result # "Ok"
          /\ UNCHANGED ledgerVars
          /\ tx'.transfers = <<>> /\ tx'.events = <<>>
          /\ subscription[tx'.account] = NoAccount
                => tx'.result = "StrategyNotActive"]_vars

\* An amount below the minimum was offered to a paused strategy and refused
\* for the strategy's status.
C20_Witness ==
    /\ tx.ix = "subscribe_to_strategy" /\ tx.result = "StrategyNotActive"
    /\ strategy.status = 1
    /\ tx.arg.investment_amount < strategy.min_investment
    /\ subscription[tx.account] = NoAccount

\* C21: the aggregate additions never wrap silently.  A subscribe in which
\* tvl + amount or subscriber_count + 1, or the sum of the per-token
\* investment amounts, exceeds what the integer holds fails and changes no
\* account, and no stored tvl or count is beyond the integer's range.
C21_NoSilentWrap ==
    [][/\ (/\ IsStep("subscribe_to_strategy")
           /\ \/ strategy.tvl + tx'.arg.investment_amount > U64_MAX
              \/ strategy.subscriber_count + 1 > U64_MAX)
          => tx'.result # "Ok" /\ UNCHANGED ledgerVars
       /\ (/\ IsStep("process_subscribe_to_strategy")
           /\ SumAmounts(tx'.arg.investment_amounts) > U64_MAX)
          => tx'.result # "Ok" /\ UNCHANGED defiVars
       /\ strategy' # NoAccount
          => strategy'.tvl <= U64_MAX /\ strategy'.subscriber_count <= U64_MAX
       /\ defi_strategy' # NoAccount
          => defi_strategy'.tvl <= U64_MAX /\ defi_strategy'.user_count <= U64_MAX
      ]_vars

\* The strategy's fee rates differ between the two states of the step.
FeeRatesChange ==
    \/ strategy'.management_fee_bps # strategy.management_fee_bps
    \/ strategy'.performance_fee_bps # strategy.performance_fee_bps

\* C22: every strategy has management_fee_bps <= 500 and
\* performance_fee_bps <= 3000 in every state.  create_strategy with a rate
\* above its cap fails with InvalidParameter and creates nothing;
\* update_strategy with a rate above its cap changes nothing, failing with
\* InvalidParameter where the caller passes the account checks; and the
\* rates of a strategy change in no step but a successful update_strategy.
C22_FeeCaps ==
    [][/\ strategy' # NoAccount
          => /\ strategy'.management_fee_bps <= 500
             /\ strategy'.performance_fee_bps <= 3000
       /\ (/\ IsStep("create_strategy")
           /\ \/ tx'.arg.management_fee_bps > 500
              \/ tx'.arg.performance_fee_bps > 3000)
          => tx'.result = "InvalidParameter" /\ UNCHANGED ledgerVars
       /\ (/\ IsStep("update_strategy")
           /\ \/ /\ IsSome(tx'.arg.management_fee_bps)
                 /\ Unwrap(tx'.arg.management_fee_bps) > 500
              \/ /\ IsSome(tx'.arg.performance_fee_bps)
                 /\ Unwrap(tx'.arg.performance_fee_bps) > 3000)
          => /\ tx'.result # "Ok"
             /\ UNCHANGED ledgerVars
             /\ (UpdateStrategySeeds(tx'.signer) /\ UpdateStrategyConstraint(tx'.signer))
                => tx'.result = "InvalidParameter"
       /\ (strategy # NoAccount /\ strategy' # NoAccount /\ FeeRatesChange)
          => IsOkStep("update_strategy")
      ]_vars

\* The creator lowered the management fee and raised the performance fee to
\* its cap, and a further change beyond a cap was refused.
C22_Witness ==
    /\ tx.ix = "update_strategy"
    /\ tx.result = "InvalidParameter"
    /\ tx.arg.performance_fee_bps = <<3001>>
    /\ strategy.management_fee_bps = 400
    /\ strategy.performance_fee_bps = 3000

\* C23: update_strategy and transfer_strategy_ownership succeed only for the
\* caller who is the strategy's recorded creator at the time of the call;
\* any other caller is rejected and nothing changes, with Unauthorized
\* where the strategy's address admits the caller's key.  The recorded
\* creator's update is not refused for who the caller is, so that after a
\* transfer of ownership the former creator's updates are rejected and the
\* new owner's are accepted.
C23_CreatorOnly ==
    [][/\ (IsStep("update_strategy") \/ IsStep("transfer_strategy_ownership"))
          => /\ tx'.result = "Ok" => tx'.signer = strategy.creator
             /\ tx'.signer # strategy.creator
                => /\ tx'.result \in {"Unauthorized", "ConstraintSeeds"}
                   /\ UpdateStrategySeeds(tx'.signer)
                      => tx'.result = "Unauthorized"
                   /\ UNCHANGED ledgerVars
       /\ (IsStep("update_strategy") /\ tx'.signer = strategy.creator)
          => tx'.result \in {"Ok", "InvalidParameter"}
      ]_vars

\* C24: a strategy's verified flag is false at creation and changes only in
\* a verify_strategy called by the authority recorded in the registry; a
\* verify_strategy by anybody else, the strategy's creator included, is
\* rejected with Unauthorized and changes nothing.
C24_VerifiedByAuthority ==
    [][/\ IsOkStep("create_strategy") => strategy'.verified = FALSE
       /\ (/\ strategy # NoAccount
           /\ strategy' # NoAccount
           /\ strategy'.verified # strategy.verified)
          => IsOkStep("verify_strategy") /\ tx'.signer = registry.authority
       /\ (IsStep("verify_strategy") /\ tx'.signer # registry.authority)
          => tx'.result = "Unauthorized" /\ UNCHANGED ledgerVars
      ]_vars

\* The strategy's creator tried to take back the verification the authority
\* had granted.
C24_Witness ==
    /\ tx.ix = "verify_strategy"
    /\ tx.signer = strategy.creator
    /\ tx.signer # registry.authority
    /\ tx.arg.verified = FALSE
    /\ tx.result = "Unauthorized"
    /\ strategy.verified = TRUE

\* The step is a transaction of one of the instructions that take the
\* UpdateStrategyValue accounts.
IsValueStep ==
    \/ IsStep("update_strategy_value")
    \/ IsStep("collect_management_fees")
    \/ IsStep("collect_performance_fees")

\* C25: update_strategy_value, collect_management_fees and
\* collect_performance_fees change a subscription only when the registry's
\* authority calls them; called by anybody else, the subscription's own
\* subscriber included, they fail with Unauthorized and leave the
\* subscription (current_value, high_water_mark, last_fee_collection) and
\* the strategy (tvl) as they were.
C25_ValueByAuthorityOnly ==
    [][IsValueStep
          => /\ tx'.signer # registry.authority
                => /\ tx'.result = "Unauthorized"
                   /\ subscription' = subscription
                   /\ strategy' = strategy
             /\ (subscription' # subscription \/ strategy'.tvl # strategy.tvl)
                => tx'.signer = registry.authority
      ]_vars

\* The subscriber tried to set the value of her own subscription, which the
\* authority had set to 1200 before.
C25_Witness ==
    /\ tx.ix = "update_strategy_value"
    /\ tx.signer = tx.pre.subscriber
    /\ tx.arg.new_value = 0
    /\ tx.result = "Unauthorized"
    /\ subscription[tx.account].current_value = 1200

\* C26: registry.protocol_fee_bps <= 1000 in every state.  protocol_fee_bps
\* and fee_recipient change only in an update_protocol_fees called by the
\* registry's authority; called by anybody else it fails with Unauthorized,
\* called with a rate above 1000 with InvalidParameter, the registry
\* unchanged in both cases; and where the recipient is omitted
\* fee_recipient keeps its value.
C26_ProtocolFee ==
    [][/\ registry' # NoAccount => registry'.protocol_fee_bps <= 1000
       /\ (/\ registry # NoAccount
           /\ \/ registry'.protocol_fee_bps # registry.protocol_fee_bps
              \/ registry'.fee_recipient # registry.fee_recipient)
          => IsOkStep("update_protocol_fees") /\ tx'.signer = registry.authority
       /\ (IsStep("update_protocol_fees") /\ registry # NoAccount)
          => /\ tx'.signer # registry.authority
                => tx'.result = "Unauthorized" /\ UNCHANGED ledgerVars
             /\ (tx'.signer = registry.authority /\ tx'.arg.protocol_fee_bps > 1000)
                => tx'.result = "InvalidParameter" /\ UNCHANGED ledgerVars
             /\ (tx'.result = "Ok" /\ ~IsSome(tx'.arg.fee_recipient))
                => registry'.fee_recipient = registry.fee_recipient
      ]_vars

\* C27: a successful unsubscribe_from_strategy is called by the
\* subscription's subscriber, sets strategy.tvl to max(tvl - current_value, 0)
\* and subscriber_count to max(subscriber_count - 1, 0), requests one
\* transfer, of the subscription's current_value from custody to the
\* subscriber, and removes the subscription account; called by anybody
\* else it is rejected and changes nothing.
C27_UnsubscribeEffect ==
    [][IsStep("unsubscribe_from_strategy")
       => LET pre == subscription[tx'.account]
          IN  /\ tx'.result = "Ok"
                 => /\ tx'.signer = pre.subscriber
                    /\ strategy'.tvl =
                          UnwrapOr(CheckedSub(strategy.tvl, pre.current_value), 0)
                    /\ strategy'.subscriber_count =
                          UnwrapOr(CheckedSub(strategy.subscriber_count, 1), 0)
                    /\ tx'.transfers =
                          <<Transfer(Custody, pre.subscriber, pre.current_value)>>
                    /\ subscription'[tx'.account] = NoAccount
              /\ tx'.signer # pre.subscriber
                 => tx'.result # "Ok" /\ UNCHANGED ledgerVars
      ]_vars

\* The subscription accounts other than that of the step's transaction are
\* as they were, and so is the investment_amount of that one.
OnlyValueOfAccountChanges ==
    /\ \A s \in Subscribers \ {tx'.account} : subscription'[s] = subscription[s]
    /\ subscription'[tx'.account].investment_amount =
          subscription[tx'.account].investment_amount

ExactManagementFee(current_value, management_fee_bps, seconds_elapsed) ==
    LET product == BMul(BFromInt(current_value * management_fee_bps),
                        BFromInt(seconds_elapsed))
        div(s, d) == BNorm(BDivSmallFrom(s, Len(s), 0, d))
    IN  BToInt(div(div(div(div(product, 10000), 365), 864), 100))

\* C29: a collect_management_fees made 86400 seconds or more after
\* last_fee_collection computes fee = floor(current_value *
\* management_fee_bps * elapsed / (10000 * 365 * 86400)), lowers
\* current_value by min(fee, current_value), so that a fee above the balance
\* leaves a balance of 0, and sets last_fee_collection to now.
C29_ManagementFeeSweep ==
    [][(/\ IsOkStep("collect_management_fees")
        /\ now - subscription[tx'.account].last_fee_collection >= 86400)
       => LET pre == subscription[tx'.account]
              fee == ExactManagementFee(pre.current_value,
                                        strategy.management_fee_bps,
                                        now - pre.last_fee_collection)
          IN  /\ subscription'[tx'.account].current_value =
                    pre.current_value
                        - (IF fee < pre.current_value THEN fee
                           ELSE pre.current_value)
              /\ subscription'[tx'.account].last_fee_collection = now
      ]_vars

\* The subscribers who hold a subscription account.
LiveSubscribers == {s \in Subscribers : subscription[s] # NoAccount}

\* C30: strategy.subscriber_count is the number of subscribers holding a
\* live subscription: a subscriber holds one subscription at most, a
\* subscribe by a subscriber who holds one fails and leaves tvl and
\* subscriber_count as they were, and a successful unsubscribe lowers
\* subscriber_count by exactly one.
C30_CountIsLiveSubscribers ==
    [][/\ strategy'.subscriber_count = Cardinality(LiveSubscribers')
       /\ (/\ IsStep("subscribe_to_strategy")
           /\ subscription[tx'.account] # NoAccount)
          => /\ tx'.result # "Ok"
             /\ strategy'.tvl = strategy.tvl
             /\ strategy'.subscriber_count = strategy.subscriber_count
             /\ subscription' = subscription
       /\ IsOkStep("unsubscribe_from_strategy")
          => strategy'.subscriber_count = strategy.subscriber_count - 1
      ]_vars

\* The step is an execute_trade transaction, also where it repeats the
\* transaction before it.
IsExecuteTradeStep ==
    /\ tx'.ix = "execute_trade"
    /\ tx' # tx \/ tradeVars' # tradeVars

\* C31: total_trades counts the successful execute_trade calls.  A call
\* succeeds only with every guard met at the call (not paused, the caller
\* the recorded authority, confidence at or above the tier's threshold,
\* amount within max_position_size), and then adds one to total_trades and
\* one trade record; a call that is rejected, or whose token transfer fails
\* after the counter was raised, leaves total_trades and the trade records
\* as they were; and no other instruction changes total_trades.
C31_TotalTradesCountsSuccesses ==
    [][/\ IsExecuteTradeStep
          => IF tx'.result = "Ok"
             THEN /\ ~trading_state.paused
                  /\ tx'.signer = trading_state.authority
                  /\ tx'.arg.confidence >= min_confidence(trading_state.risk_level)
                  /\ tx'.arg.amount <= trading_state.max_position_size
                  /\ trading_state'.total_trades = trading_state.total_trades + 1
                  /\ Len(trade_record') = Len(trade_record) + 1
             ELSE /\ trading_state' = trading_state
                  /\ trade_record' = trade_record
       /\ (/\ trading_state # NoAccount
           /\ trading_state'.total_trades # trading_state.total_trades)
          => IsExecuteTradeStep /\ tx'.result = "Ok"
       /\ trading_state' # NoAccount
          => trading_state'.total_trades = Len(trade_record')
      ]_vars

\* After one trade, a request that met every guard failed at its token
\* transfer: the trade counted is still the one.
C31_Witness ==
    /\ tx.ix = "execute_trade"
    /\ tx.result = "InsufficientFunds"
    /\ trading_state.total_trades = 1
    /\ Len(trade_record) = 1

\* C32: every live subscription has current_value <= high_water_mark, so
\* the gate current_value > high_water_mark of collect_performance_fee is
\* never true and no performance fee is ever deducted: the instruction
\* leaves the subscription as it found it and requests no transfer.
C32_ValueNeverAboveMark ==
    /\ \A s \in Subscribers :
          subscription[s] # NoAccount
             => subscription[s].current_value <= subscription[s].high_water_mark
    /\ tx.ix = "collect_performance_fees"
          => /\ tx.pre.current_value <= tx.pre.high_water_mark
             /\ subscription[tx.account] = tx.pre
             /\ tx.transfers = <<>>

\* collect_performance_fee has run at 2000 bps on a subscription that
\* update_value had raised from 1000 to 1200.
C32_Witness ==
    /\ tx.ix = "collect_performance_fees" /\ tx.result = "Ok"
    /\ strategy.performance_fee_bps = 2000
    /\ tx.pre.investment_amount = 1000
    /\ tx.pre.current_value = 1200
    /\ subscription[tx.account].current_value = 1200

\* C33: successful_trades <= total_trades in every state, after any
\* sequence of execute_trade and update_trade_outcome, repeated
\* update_trade_outcome on the same trade record included.
C33_SuccessfulWithinTotal ==
    trading_state # NoAccount
       => trading_state.successful_trades <= trading_state.total_trades

\* C34: the trading state's risk_level is between 1 and 10 in every state,
\* after initialize and after any update_parameters.
C34_RiskLevelInRange ==
    trading_state # NoAccount
       => trading_state.risk_level >= 1 /\ trading_state.risk_level <= 10

\* The step is a call of instruction ix of the agent or the alert program,
\* also where it repeats the transaction before it.
IsCall(ix) ==
    /\ tx'.ix = ix
    /\ tx' # tx \/ agentVars' # agentVars \/ alertVars' # alertVars

\* C35: record_trade succeeds only while the agent is Active; on an
\* Inactive or Paused agent it fails and changes no counter, with
\* AgentNotActive wherever the trade_action account can be created; each
\* successful call adds one to total_trades and one to exactly one of
\* successful_trades and failed_trades, so total_trades = successful_trades
\* + failed_trades in every state.
C35_RecordTradeWhileActive ==
    [][/\ IsCall("record_trade") =>
             /\ agent_config.status # "Active" =>
                   /\ tx'.result # "Ok"
                   /\ agent_stats' = agent_stats
                   /\ agent_config' = agent_config
                   /\ TradeActionSeeds(tx'.arg.strategy_id) \notin trade_action
                         => tx'.result = "AgentNotActive"
             /\ tx'.result = "Ok" =>
                   /\ agent_config.status = "Active"
                   /\ agent_stats'.total_trades = agent_stats.total_trades + 1
                   /\ agent_stats'.successful_trades =
                         agent_stats.successful_trades
                            + (IF tx'.arg.success THEN 1 ELSE 0)
                   /\ agent_stats'.failed_trades =
                         agent_stats.failed_trades
                            + (IF tx'.arg.success THEN 0 ELSE 1)
       /\ agent_stats' # NoAccount =>
             agent_stats'.total_trades =
                agent_stats'.successful_trades + agent_stats'.failed_trades
      ]_vars

\* A trade was refused on the paused agent, after one that failed had been
\* recorded.
C35_Witness ==
    /\ tx.ix = "record_trade" /\ tx.result = "AgentNotActive"
    /\ agent_config.status = "Paused"
    /\ agent_stats.total_trades = 1
    /\ agent_stats.failed_trades = 1

\* C36: the strategies list never holds more than 10 entries nor two with
\* the same id: add_strategy with an id already present updates that entry
\* in place, keeping its last_executed_at, its execution_count, the other
\* entries and the length of the list; add_strategy with a new id on a list
\* of 10 fails (TooManyStrategies where the owner's arguments are in bounds)
\* and remove_strategy of an absent id fails (StrategyNotFound for the
\* owner), both leaving the list unchanged.
C36_StrategiesBounded ==
    [][LET old == agent_config.strategies
           new == agent_config'.strategies
           index == Position(old, tx'.arg.strategy_id)
           owner == tx'.signer = agent_config.owner
       IN  /\ Len(new) <= MAX_STRATEGIES
           /\ \A i, j \in DOMAIN new : new[i].id = new[j].id => i = j
           /\ (IsCall("add_strategy") /\ index # 0 /\ tx'.result = "Ok") =>
                 /\ Len(new) = Len(old)
                 /\ \A i \in DOMAIN old : i # index => new[i] = old[i]
                 /\ new[index] =
                       [old[index] EXCEPT !.name = tx'.arg.name,
                                          !.parameters = tx'.arg.parameters,
                                          !.strategy_type = tx'.arg.strategy_type,
                                          !.is_active = tx'.arg.is_active]
           /\ (IsCall("add_strategy") /\ index = 0 /\ Len(old) = MAX_STRATEGIES) =>
                 /\ tx'.result # "Ok"
                 /\ new = old
                 /\ (/\ owner
                     /\ Len(tx'.arg.name) \in 1..50
                     /\ Len(tx'.arg.parameters) <= 1024)
                       => tx'.result = "TooManyStrategies"
           /\ (IsCall("remove_strategy") /\ index = 0) =>
                 /\ tx'.result # "Ok"
                 /\ new = old
                 /\ owner => tx'.result = "StrategyNotFound"
      ]_vars

\* An eleventh strategy was refused on a list of ten whose first entry had
\* been executed once and then updated in place.
C36_Witness ==
    /\ tx.ix = "add_strategy" /\ tx.result = "TooManyStrategies"
    /\ Len(agent_config.strategies) = MAX_STRATEGIES
    /\ agent_config.strategies[1].id = 1
    /\ agent_config.strategies[1].execution_count = 1
    /\ ~agent_config.strategies[1].is_active

RECURSIVE SumSeq(_)
\* The sum of a sequence of integers.
SumSeq(s) == IF s = <<>> THEN 0 ELSE s[1] + SumSeq(Tail(s))

\* The last n entries of a sequence.
LastN(s, n) == IF Len(s) <= n THEN s ELSE SubSeq(s, Len(s) - n + 1, Len(s))

\* C37: performance_data never holds more than 30 points and holds, in the
\* order of insertion, the points recorded last, the oldest being evicted
\* when a 31st is recorded; profit_loss is the sum of every
\* daily_profit_loss recorded, those of evicted points included.
C37_PerformanceWindow ==
    agent_stats # NoAccount =>
       LET data == agent_stats.performance_data
       IN  /\ Len(data) <= MAX_PERFORMANCE_POINTS
           /\ [i \in DOMAIN data |-> data[i].daily_profit_loss]
                 = LastN(recorded, MAX_PERFORMANCE_POINTS)
           /\ \A i, j \in DOMAIN data :
                 i <= j => data[i].timestamp <= data[j].timestamp
           /\ agent_stats.profit_loss = SumSeq(recorded)

\* A 31st point was recorded on a later day: the first was evicted and the
\* second is now the oldest.
C37_Witness ==
    /\ tx.ix = "record_performance" /\ tx.result = "Ok"
    /\ Len(recorded) = MAX_PERFORMANCE_POINTS + 1
    /\ Len(agent_stats.performance_data) = MAX_PERFORMANCE_POINTS
    /\ agent_stats.performance_data[1].daily_profit_loss = recorded[2]
    /\ agent_stats.performance_data[MAX_PERFORMANCE_POINTS].timestamp = 86400
    /\ agent_stats.profit_loss = SumSeq(recorded)

\* The sum of target_percentage, unbounded.
TrueSum(allocations) ==
    SumSeq([i \in DOMAIN allocations |-> allocations[i].target_percentage])

\* C38: set_target_allocations accepts a list only if it has 1 to 20
\* entries, every target_percentage > 0, every max_deviation_bps <= 2000 and
\* the true sum of target_percentage is exactly 10000; a call that is
\* rejected leaves the stored allocations unchanged.
C38_TrueSumIs10000 ==
    [][IsCall("set_target_allocations") =>
          LET allocations == tx'.arg.allocations
          IN  IF tx'.result = "Ok"
              THEN /\ Len(allocations) \in 1..MAX_ALLOCATIONS
                   /\ \A i \in DOMAIN allocations :
                         /\ allocations[i].target_percentage > 0
                         /\ allocations[i].max_deviation_bps <= 2000
                   /\ TrueSum(allocations) = 10000
                   /\ agent_config'.target_allocations = allocations
              ELSE agent_config'.target_allocations
                      = agent_config.target_allocations]_vars

\* C39: each price alert fires at most once.  A successful
\* trigger_price_alert(token, price) marks exactly the alerts of that token
\* that were not triggered and whose threshold the price has reached (at or
\* above it for direction above, at or below it for direction below), and
\* emits one event for each of them, in order; every other alert, those of
\* other tokens among them, is unchanged; and an alert that is triggered
\* stays triggered for as long as it exists.
C39_FiresAtMostOnce ==
    [][LET old == price_alerts.alerts
           new == price_alerts'.alerts
           token == tx'.arg.token
           price == tx'.arg.current_price
           due(a) == /\ a.token = token
                     /\ ~a.triggered
                     /\ (a.direction => price >= a.threshold)
                     /\ (~a.direction => price <= a.threshold)
           fired == SelectSeq(old, due)
       IN  /\ (IsCall("trigger_price_alert") /\ tx'.result = "Ok") =>
                 /\ Len(new) = Len(old)
                 /\ \A i \in DOMAIN old :
                       new[i] = IF due(old[i])
                                THEN [old[i] EXCEPT !.triggered = TRUE]
                                ELSE old[i]
                 /\ Len(tx'.events) = Len(fired)
                 /\ \A i \in DOMAIN fired :
                       /\ tx'.events[i].token_address = token
                       /\ tx'.events[i].alert_direction = fired[i].direction
                       /\ tx'.events[i].threshold = fired[i].threshold
                       /\ tx'.events[i].current_price = price
           /\ (price_alerts # NoAccount /\ price_alerts' # NoAccount) =>
                 \A i \in DOMAIN old, j \in DOMAIN new :
                    (old[i].id = new[j].id /\ old[i].triggered)
                       => new[j].triggered
      ]_vars

\* A second trigger at the same price found the sol alert triggered and
\* emitted nothing, the usdc alert being as it was.
C39_Witness ==
    /\ tx.ix = "trigger_price_alert" /\ tx.result = "Ok"
    /\ tx.arg.token = "sol" /\ tx.arg.current_price = 101
    /\ tx.events = <<>>
    /\ Len(price_alerts.alerts) = 2
    /\ price_alerts.alerts[1].token = "sol"
    /\ price_alerts.alerts[1].direction
    /\ price_alerts.alerts[1].triggered
    /\ price_alerts.alerts[2].token = "usdc"
    /\ ~price_alerts.alerts[2].triggered

\* C40: a trigger_price_alert signed by a key that is not the oracle's
\* fails with Unauthorized and marks no alert, whatever its arguments.
C40_OracleOnly ==
    [][(IsCall("trigger_price_alert") /\ tx'.signer # Oracle) =>
          /\ tx'.result = "Unauthorized"
          /\ price_alerts' = price_alerts]_vars

=============================================================================
